---- MODULE Spec2Model ----
(***************************************************************************)
(* Ordering engine of smart-dashboard (server/src/ordering.ts, global-scan *)
(* variant, with routes.ts and store.ts).  Ranks are JavaScript numbers:   *)
(* IEEE-754 binary64 values, modelled bit-exactly with round-to-nearest-   *)
(* even, because the engine's behaviour depends on rounding.               *)
(***************************************************************************)
EXTENDS Integers, Sequences, FiniteSets, TLC

(***************************************************************************)
(* JavaScript numbers.  A finite double is [s, e, hi, lo] with value       *)
(*      s * (hi * 2^27 + lo) * 2^e                                         *)
(* where s is the sign (0 for zero) and hi * 2^27 + lo is the 53-bit       *)
(* significand, 2^52 <= significand < 2^53.  Intermediate results carry    *)
(* three extra low bits (guard, round, sticky) as <<h, l>> = h * 2^30 + l. *)
(***************************************************************************)
Zero == [s |-> 0, e |-> 0, hi |-> 0, lo |-> 0]

Jam(l, sticky) == IF sticky /\ l % 2 = 0 THEN l + 1 ELSE l

\* h * 2^30 + l shifted right by d bits, the bits shifted out or-ed into bit 0
ShrJam(h, l, d) ==
  IF d = 0 THEN <<h, l>>
  ELSE IF d < 30
    THEN <<h \div 2^d,
           Jam((l \div 2^d) + (h % 2^d) * 2^(30 - d), l % 2^d # 0)>>
  ELSE IF d < 60
    THEN <<0, Jam(h \div 2^(d - 30), l # 0 \/ h % 2^(d - 30) # 0)>>
  ELSE <<0, Jam(0, h # 0 \/ l # 0)>>

\* round to nearest, ties to even: h * 2^30 + l in [2^55, 2^56) is the
\* significand followed by the three extra bits
RoundPack(s, e, h, l) ==
  LET lo27 == l \div 8
      r == l % 8
      up == r > 4 \/ (r = 4 /\ lo27 % 2 = 1)
      lo1 == IF up THEN lo27 + 1 ELSE lo27
      hi1 == IF lo1 = 2^27 THEN h + 1 ELSE h
  IN IF hi1 = 2^26
       THEN [s |-> s, e |-> e + 1, hi |-> 2^25, lo |-> 0]
       ELSE [s |-> s, e |-> e, hi |-> hi1, lo |-> lo1 % 2^27]

RECURSIVE Normalize(_, _, _, _)
Normalize(s, e, h, l) ==
  IF h = 0 /\ l = 0 THEN Zero
  ELSE IF h >= 2^26
    THEN LET t == ShrJam(h, l, 1) IN Normalize(s, e + 1, t[1], t[2])
  ELSE IF h < 2^18
    THEN Normalize(s, e - 8, 2^8 * h + (l \div 2^22), (l % 2^22) * 2^8)
  ELSE IF h < 2^25
    THEN Normalize(s, e - 1, 2 * h + (l \div 2^29), (l % 2^29) * 2)
  ELSE RoundPack(s, e, h, l)

\* |x| >= |y| for non-zero x, y
MagGe(x, y) ==
  \/ x.e > y.e
  \/ x.e = y.e /\ x.hi > y.hi
  \/ x.e = y.e /\ x.hi = y.hi /\ x.lo >= y.lo

FNeg(x) == [x EXCEPT !.s = 0 - x.s]

FAdd(x, y) ==
  IF x.s = 0 THEN y
  ELSE IF y.s = 0 THEN x
  ELSE LET a == IF MagGe(x, y) THEN x ELSE y
           b == IF MagGe(x, y) THEN y ELSE x
           A == <<a.hi, a.lo * 8>>
           B == ShrJam(b.hi, b.lo * 8, a.e - b.e)
       IN IF a.s = b.s
            THEN LET l == A[2] + B[2]
                 IN Normalize(a.s, a.e, A[1] + B[1] + (l \div 2^30), l % 2^30)
            ELSE LET borrow == IF A[2] < B[2] THEN 1 ELSE 0
                 IN Normalize(a.s, a.e, A[1] - B[1] - borrow,
                              A[2] - B[2] + borrow * 2^30)

FSub(x, y) == FAdd(x, FNeg(y))

\* x / 2 (exact)
FHalf(x) == IF x.s = 0 THEN x ELSE [x EXCEPT !.e = x.e - 1]

FLt(x, y) ==
  IF x.s # y.s THEN x.s < y.s
  ELSE IF x.s = 0 THEN FALSE
  ELSE IF x.s = 1 THEN ~MagGe(x, y)
  ELSE ~MagGe(y, x)

FGt(x, y) == FLt(y, x)

FLe(x, y) == ~FLt(y, x)

FGe(x, y) == ~FLt(x, y)

RECURSIVE BitLen(_)
BitLen(n) == IF n = 0 THEN 0 ELSE 1 + BitLen(n \div 2)

\* the double of an integer |n| < 2^31
FromInt(n) ==
  IF n = 0 THEN Zero
  ELSE LET m == IF n < 0 THEN 0 - n ELSE n
           L == BitLen(m)
       IN [s |-> IF n < 0 THEN 0 - 1 ELSE 1,
           e |-> L - 53,
           hi |-> IF L <= 26 THEN m * 2^(26 - L) ELSE m \div 2^(L - 26),
           lo |-> IF L <= 26 THEN 0 ELSE (m % 2^(L - 26)) * 2^(53 - L)]

\* Math.floor as an integer, for |x| < 2^31
FFloor(x) ==
  IF x.s = 0 THEN 0
  ELSE LET k == 0 - x.e
           whole == IF k >= 53 THEN 0
                    ELSE IF k >= 27 THEN x.hi \div 2^(k - 27)
                    ELSE x.hi * 2^(27 - k) + (x.lo \div 2^k)
           frac == IF k >= 53 THEN TRUE
                   ELSE IF k >= 27 THEN x.lo # 0 \/ x.hi % 2^(k - 27) # 0
                   ELSE x.lo % 2^k # 0
       IN IF x.s = 1 THEN whole
          ELSE IF frac THEN 0 - whole - 1 ELSE 0 - whole

\* x * k for an integer 1 <= k <= 15
FMulInt(x, k) ==
  IF x.s = 0 THEN Zero
  ELSE LET l == x.lo * k
       IN Normalize(x.s, x.e, x.hi * k + (l \div 2^27), (l % 2^27) * 8)

\* x / k for an integer 1 <= k <= 8
FDivInt(x, k) ==
  IF x.s = 0 THEN Zero
  ELSE LET H == x.hi * 8 + (x.lo \div 2^24)
           L == (x.lo % 2^24) * 2^6
           m == (H % k) * 2^15 + (L \div 2^15)
           n == (m % k) * 2^15 + (L % 2^15)
           q == (m \div k) * 2^15 + (n \div k)
       IN Normalize(x.s, x.e - 3, H \div k, Jam(q, n % k # 0))

(***************************************************************************)
(* Program constants (ordering.ts) and the numeric literals of the code.   *)
(* MAX_ID is 1_000_000 in the source; the model keeps the identifier space *)
(* small enough to enumerate.                                              *)
(***************************************************************************)
MAX_ID == 232

\* 1e-12
EPS == [s |-> 1, e |-> 0 - 92, hi |-> 36893488, lo |-> 19786257]

\* 0.001
Milli == [s |-> 1, e |-> 0 - 62, hi |-> 34359738, lo |-> 49392124]

\* 0.0001
TenthMilli == [s |-> 1, e |-> 0 - 66, hi |-> 54975581, lo |-> 52183853]

Undefined == [s |-> 2, e |-> 0, hi |-> 0, lo |-> 0]

Null == [id |-> 0, rank |-> Zero]

(***************************************************************************)
(* ClientState: selected is a Set<number>; rank is a Map<number, number>,  *)
(* kept as the sequence of its entries in insertion order (the order a JS  *)
(* Map iterates in).                                                       *)
(***************************************************************************)
EmptyState == [selected |-> {}, rank |-> <<>>]

MapHas(m, id) == \E i \in 1..Len(m) : m[i].id = id

MapGet(m, id) == m[CHOOSE i \in 1..Len(m) : m[i].id = id].rank

MapSet(m, id, r) ==
  IF MapHas(m, id)
    THEN [i \in 1..Len(m) |-> IF m[i].id = id THEN [id |-> id, rank |-> r] ELSE m[i]]
    ELSE Append(m, [id |-> id, rank |-> r])

MapKeys(m) == {m[i].id : i \in 1..Len(m)}

(***************************************************************************)
(* ordering.ts, global-scan variant                                        *)
(***************************************************************************)
DigitChars == <<"0", "1", "2", "3", "4", "5", "6", "7", "8", "9">>

\* String(id): the decimal form of a positive integer, as its characters
RECURSIVE String(_)
String(n) ==
  IF n < 10 THEN <<DigitChars[n + 1]>>
  ELSE Append(String(n \div 10), DigitChars[(n % 10) + 1])

\* s.includes(q)
Includes(s, q) ==
  \E i \in 0..(Len(s) - Len(q)) : \A j \in 1..Len(q) : s[i + j] = q[j]

\* an absent query and the empty string are both <<>>
matchesQuery(id, q) == IF q = <<>> THEN TRUE ELSE Includes(String(id), q)

\* a lookup that falls back to 0 instead of the identifier
getRankZero(state, id) ==
  IF MapHas(state.rank, id) THEN MapGet(state.rank, id) ELSE Zero

getRank(state, id) ==
  IF MapHas(state.rank, id) THEN MapGet(state.rank, id) ELSE FromInt(id)

\* the loop over state.rank.entries(): of the overrides below targetRank, the
\* one of greatest rank, the earliest in insertion order among equal ranks
PredScan(m, targetRank, excludeId) ==
  LET below == {k \in 1..Len(m) : /\ m[k].id # excludeId
                                  /\ m[k].rank # FromInt(m[k].id)
                                  /\ FLt(m[k].rank, targetRank)}
  IN IF below = {} THEN Null
     ELSE m[CHOOSE k \in below :
              \A j \in below : \/ FGt(m[k].rank, m[j].rank)
                               \/ (m[k].rank = m[j].rank /\ k <= j)]

\* a fallback to the default predecessor without the range test
getPredByRankUnchecked(state, targetRank, excludeId) ==
  LET pred == PredScan(state.rank, targetRank, excludeId)
      defaultPredId == FFloor(targetRank) - 1
  IN IF pred = Null /\ FGt(targetRank, FromInt(1))
       THEN [id |-> defaultPredId, rank |-> FromInt(defaultPredId)]
       ELSE pred

getPredByRank(state, targetRank, excludeId) ==
  LET pred == PredScan(state.rank, targetRank, excludeId)
      defaultPredId == FFloor(targetRank) - 1
  IN IF pred = Null /\ FGt(targetRank, FromInt(1))
          /\ defaultPredId >= 1 /\ defaultPredId <= MAX_ID
       THEN [id |-> defaultPredId, rank |-> FromInt(defaultPredId)]
       ELSE pred

\* a scan that also takes the entries whose rank equals the identifier
SuccScanAnyEntry(m, targetRank, excludeId) ==
  LET above == {k \in 1..Len(m) : /\ m[k].id # excludeId
                                  /\ FGt(m[k].rank, targetRank)}
  IN IF above = {} THEN Null
     ELSE m[CHOOSE k \in above :
              \A j \in above : \/ FLt(m[k].rank, m[j].rank)
                               \/ (m[k].rank = m[j].rank /\ k <= j)]

\* the loop over state.rank.entries(): of the overrides above targetRank, the
\* one of least rank, the earliest in insertion order among equal ranks
SuccScan(m, targetRank, excludeId) ==
  LET above == {k \in 1..Len(m) : /\ m[k].id # excludeId
                                  /\ m[k].rank # FromInt(m[k].id)
                                  /\ FGt(m[k].rank, targetRank)}
  IN IF above = {} THEN Null
     ELSE m[CHOOSE k \in above :
              \A j \in above : \/ FLt(m[k].rank, m[j].rank)
                               \/ (m[k].rank = m[j].rank /\ k <= j)]

getSuccByRank(state, targetRank, excludeId) ==
  LET succ == SuccScan(state.rank, targetRank, excludeId)
      defaultSuccId == FFloor(targetRank) + 1
  IN IF succ = Null /\ FLt(targetRank, FromInt(MAX_ID))
          /\ defaultSuccId >= 1 /\ defaultSuccId <= MAX_ID
       THEN [id |-> defaultSuccId, rank |-> FromInt(defaultSuccId)]
       ELSE succ

\* a midpoint without the division by two
chooseBetweenSum(lower, upper) ==
  IF lower # Undefined /\ upper # Undefined THEN FAdd(lower, upper)
  ELSE IF upper # Undefined THEN FSub(upper, TenthMilli)
  ELSE IF lower # Undefined THEN FAdd(lower, TenthMilli)
  ELSE Zero

chooseBetween(lower, upper) ==
  IF lower # Undefined /\ upper # Undefined THEN FHalf(FAdd(lower, upper))
  ELSE IF upper # Undefined THEN FSub(upper, TenthMilli)
  ELSE IF lower # Undefined THEN FAdd(lower, TenthMilli)
  ELSE Zero

\* idsInOrder.forEach((id, index) => state.rank.set(id, base + step * index'))
RECURSIVE SetFractional(_, _, _, _, _)
SetFractional(m, idsInOrder, k, lower, step) ==
  IF k > Len(idsInOrder) THEN m
  ELSE SetFractional(MapSet(m, idsInOrder[k], FAdd(lower, FMulInt(step, k))),
                     idsInOrder, k + 1, lower, step)

RECURSIVE SetIntegers(_, _, _, _)
SetIntegers(m, idsInOrder, k, baseRank) ==
  IF k > Len(idsInOrder) THEN m
  ELSE SetIntegers(MapSet(m, idsInOrder[k], FAdd(baseRank, FromInt(k - 1))),
                   idsInOrder, k + 1, baseRank)

\* a renormalization that takes the fractional branch already at gap = EPS
renormalizeWindowAtEps(state, idsInOrder, lower, upper) ==
  IF Len(idsInOrder) = 0 THEN state.rank
  ELSE LET hasBounds == lower # Undefined /\ upper # Undefined
       IN IF hasBounds /\ FGe(FSub(upper, lower), EPS)
            THEN SetFractional(state.rank, idsInOrder, 1, lower,
                               FDivInt(FSub(upper, lower), Len(idsInOrder) + 1))
            ELSE LET baseRank ==
                       IF upper # Undefined
                         THEN FSub(upper, FromInt(Len(idsInOrder)))
                       ELSE IF lower # Undefined THEN FAdd(lower, FromInt(1))
                       ELSE Zero
                 IN SetIntegers(state.rank, idsInOrder, 1, baseRank)

\* the rank map after renormalizeWindow(state, idsInOrder, lower, upper)
renormalizeWindow(state, idsInOrder, lower, upper) ==
  IF Len(idsInOrder) = 0 THEN state.rank
  ELSE LET hasBounds == lower # Undefined /\ upper # Undefined
       IN IF hasBounds /\ FGt(FSub(upper, lower), EPS)
            THEN SetFractional(state.rank, idsInOrder, 1, lower,
                               FDivInt(FSub(upper, lower), Len(idsInOrder) + 1))
            ELSE LET baseRank ==
                       IF upper # Undefined
                         THEN FSub(upper, FromInt(Len(idsInOrder)))
                       ELSE IF lower # Undefined THEN FAdd(lower, FromInt(1))
                       ELSE Zero
                 IN SetIntegers(state.rank, idsInOrder, 1, baseRank)

\* Bounds with the bias on the wrong side of the target
BoundsBiasBeyond(state, movedId, targetId, position) ==
  LET targetRank == getRank(state, targetId)
  IN IF position = "before"
       THEN LET pred == getPredByRank(state, targetRank, movedId)
            IN <<IF pred # Null /\ pred.id # movedId /\ pred.rank # FromInt(pred.id)
                   THEN pred.rank
                   ELSE targetRank,
                 FAdd(targetRank, Milli)>>
       ELSE LET succ == getSuccByRank(state, targetRank, movedId)
            IN <<FSub(targetRank, Milli),
                 IF succ # Null /\ succ.id # movedId /\ succ.rank # FromInt(succ.id)
                   THEN succ.rank
                   ELSE targetRank>>

\* Bounds without the bias towards the target: the neighbour's rank is the
\* bound even when the neighbour is a default item
BoundsNoBias(state, movedId, targetId, position) ==
  LET targetRank == getRank(state, targetId)
  IN IF position = "before"
       THEN LET pred == getPredByRank(state, targetRank, movedId)
            IN <<IF pred # Null /\ pred.id # movedId
                   THEN pred.rank
                   ELSE FSub(targetRank, Milli),
                 targetRank>>
       ELSE LET succ == getSuccByRank(state, targetRank, movedId)
            IN <<targetRank,
                 IF succ # Null /\ succ.id # movedId
                   THEN succ.rank
                   ELSE FAdd(targetRank, Milli)>>

\* lines 166-216: the bounds <<lower, upper>> of the new rank
Bounds(state, movedId, targetId, position) ==
  LET targetRank == getRank(state, targetId)
  IN IF position = "before"
       THEN LET pred == getPredByRank(state, targetRank, movedId)
            IN <<IF pred # Null /\ pred.id # movedId /\ pred.rank # FromInt(pred.id)
                   THEN pred.rank
                   ELSE FSub(targetRank, Milli),
                 targetRank>>
       ELSE LET succ == getSuccByRank(state, targetRank, movedId)
            IN <<targetRank,
                 IF succ # Null /\ succ.id # movedId /\ succ.rank # FromInt(succ.id)
                   THEN succ.rank
                   ELSE FAdd(targetRank, Milli)>>

\* a density test against 0.001 instead of EPS
needsRenormalizationMilli(state, movedId, targetId, position) ==
  LET b == Bounds(state, movedId, targetId, position)
  IN b[1] # Undefined /\ b[2] # Undefined /\ FLt(FSub(b[2], b[1]), Milli)

\* lines 219-220
needsRenormalization(state, movedId, targetId, position) ==
  LET b == Bounds(state, movedId, targetId, position)
  IN b[1] # Undefined /\ b[2] # Undefined /\ FLt(FSub(b[2], b[1]), EPS)

\* lines 226-242: [pred?, moved, target, succ?] or [pred?, target, moved, succ?]
Window(state, movedId, targetId, position) ==
  LET targetRank == getRank(state, targetId)
      pred == getPredByRank(state, targetRank, movedId)
      succ == getSuccByRank(state, targetRank, movedId)
  IN (IF pred # Null THEN <<pred.id>> ELSE <<>>)
       \o (IF position = "before" THEN <<movedId, targetId>>
           ELSE <<targetId, movedId>>)
       \o (IF succ # Null THEN <<succ.id>> ELSE <<>>)

\* the validation without the self-move check
InvalidReorderRangeOnly(movedId, targetId) ==
  movedId < 1 \/ movedId > MAX_ID \/ targetId < 1 \/ targetId > MAX_ID

InvalidReorder(movedId, targetId) ==
  \/ movedId < 1 \/ movedId > MAX_ID \/ targetId < 1 \/ targetId > MAX_ID
  \/ movedId = targetId

\* a reorder that stores ranks in the renormalization branch only
applyReorderInsertDenseOnly(state, movedId, targetId, position) ==
  IF needsRenormalization(state, movedId, targetId, position)
    THEN [state EXCEPT !.rank =
            renormalizeWindow(state, Window(state, movedId, targetId, position),
                              Bounds(state, movedId, targetId, position)[1],
                              Bounds(state, movedId, targetId, position)[2])]
    ELSE state

\* the client state after an accepted applyReorderInsert
\* a midpoint branch that always resets the entry of the target
applyReorderInsertResetTarget(state, movedId, targetId, position) ==
  LET b == Bounds(state, movedId, targetId, position)
  IN IF needsRenormalization(state, movedId, targetId, position)
       THEN [state EXCEPT !.rank =
               renormalizeWindow(state, Window(state, movedId, targetId, position),
                                 b[1], b[2])]
       ELSE LET newRank == chooseBetween(b[1], b[2])
                m1 == MapSet(state.rank, movedId, newRank)
            IN [state EXCEPT !.rank = MapSet(m1, targetId, FromInt(targetId))]

applyReorderInsert(state, movedId, targetId, position) ==
  LET b == Bounds(state, movedId, targetId, position)
  IN IF needsRenormalization(state, movedId, targetId, position)
       THEN [state EXCEPT !.rank =
               renormalizeWindow(state, Window(state, movedId, targetId, position),
                                 b[1], b[2])]
       ELSE LET newRank == chooseBetween(b[1], b[2])
                m1 == MapSet(state.rank, movedId, newRank)
            IN [state EXCEPT !.rank =
                  IF MapHas(m1, targetId) THEN m1
                  ELSE MapSet(m1, targetId, FromInt(targetId))]

\* a comparator that orders the overrides by identifier alone
OverrideBeforeById(a, b) == a.id < b.id

\* overrides.sort((a, b) => a.rank - b.rank || a.id - b.id)
OverrideBefore(a, b) ==
  FLt(a.rank, b.rank) \/ (a.rank = b.rank /\ a.id < b.id)

IsOverride(en) == en.rank # FromInt(en.id)

\* Stream A of listPage: the entries with rank !== id that match q, sorted
Overrides(state, q) ==
  SortSeq(SelectSeq(state.rank, LAMBDA en : IsOverride(en) /\ matchesQuery(en.id, q)),
          OverrideBefore)

\* the inner while loop (lines 306-317): it leaves defaultPointer on the first
\* candidate of the default stream, or on MAX_ID + 1 when there is none
DefaultCandidate(p, overridesSet, q) ==
  p \notin overridesSet /\ matchesQuery(p, q)

\* a default stream that ends one identifier early
NextDefaultBelowMax(defaultPointer, overridesSet, q) ==
  IF \E p \in defaultPointer..(MAX_ID - 1) : DefaultCandidate(p, overridesSet, q)
    THEN CHOOSE p \in defaultPointer..(MAX_ID - 1) :
           /\ DefaultCandidate(p, overridesSet, q)
           /\ \A r \in defaultPointer..(p - 1) : ~DefaultCandidate(r, overridesSet, q)
    ELSE MAX_ID + 1

NextDefault(defaultPointer, overridesSet, q) ==
  IF \E p \in defaultPointer..MAX_ID : DefaultCandidate(p, overridesSet, q)
    THEN CHOOSE p \in defaultPointer..MAX_ID :
           /\ DefaultCandidate(p, overridesSet, q)
           /\ \A r \in defaultPointer..(p - 1) : ~DefaultCandidate(r, overridesSet, q)
    ELSE MAX_ID + 1

\* an item that is never reported as selected
ItemDTOUnselected(state, id) ==
  [id |-> id, label |-> <<"Item ">> \o String(id), selected |-> FALSE]

ItemDTO(state, id) ==
  [id |-> id, label |-> <<"Item ">> \o String(id), selected |-> id \in state.selected]

\* the merge loop (lines 296-345)
RECURSIVE MergeLoop(_, _, _, _, _, _, _, _, _)
MergeLoop(state, q, offset, limit, overrides, items, seen, defaultPointer, overrideIndex) ==
  IF ~(Len(items) < limit) THEN items
  ELSE LET override == IF overrideIndex < Len(overrides)
                         THEN overrides[overrideIndex + 1] ELSE Null
           dp == NextDefault(defaultPointer, {overrides[i].id : i \in 1..Len(overrides)}, q)
           defaultItem == [id |-> dp, rank |-> FromInt(dp)]
           nextItem ==
             IF dp <= MAX_ID
                  /\ (\/ override = Null
                      \/ FLt(defaultItem.rank, override.rank)
                      \/ (defaultItem.rank = override.rank /\ defaultItem.id < override.id))
               THEN defaultItem ELSE override
           fromOverrides == override # Null /\ nextItem.id = override.id
           oi == IF fromOverrides THEN overrideIndex + 1 ELSE overrideIndex
           dp1 == IF fromOverrides THEN dp ELSE dp + 1
       IN IF nextItem = Null THEN items
          ELSE IF seen < offset
            THEN MergeLoop(state, q, offset, limit, overrides, items, seen + 1, dp1, oi)
          ELSE MergeLoop(state, q, offset, limit, overrides,
                         Append(items, ItemDTO(state, nextItem.id)), seen, dp1, oi)

\* a listing that never skips: every page is the first one
listPageFirstPage(state, q, offset, limit) ==
  MergeLoop(state, q, 0, limit, Overrides(state, q), <<>>, 0, 1, 0)

listPage(state, q, offset, limit) ==
  MergeLoop(state, q, offset, limit, Overrides(state, q), <<>>, 0, 1, 0)

(***************************************************************************)
(* State: the InMemoryStore (store.ts) and the last response sent.         *)
(*   clients  the Map<ClientId, ClientState> of the store                  *)
(*   last     the last request handled and its outcome                     *)
(*   nops     number of accepted writes so far (bounds the exploration)    *)
(*   hist     the accepted reorder requests in order, where it is tracked  *)
(*   hook     the state of the client's useInfiniteItems hook and its      *)
(*            requests in flight                                           *)
(***************************************************************************)
VARIABLES clients, last, nops, hist, hook

vars == <<clients, last, nops, hist, hook>>

\* useInfiniteItems after mount: the useState initial values; the effect on
\* [query] has armed the debounce timer; no request has been issued.  resets
\* counts the debounced resets that followed a query change.
HookInit ==
  [query |-> <<>>, items |-> <<>>, offset |-> 0, isLoading |-> FALSE,
   isEnd |-> FALSE, timer |-> "mount", requests |-> <<>>, resets |-> 0]

NoHistory == <<"untracked">>

\* a get that creates a fresh state on every call
StoreGetFresh(cl, clientId) == (clientId :> EmptyState) @@ cl

\* InMemoryStore.get: the map after the lazy creation of the client's state
StoreGet(cl, clientId) ==
  IF clientId \in DOMAIN cl THEN cl ELSE (clientId :> EmptyState) @@ cl

\* a reset that empties the state of every client
StoreResetAll(cl, clientId) ==
  [c \in DOMAIN cl \cup {clientId} |-> EmptyState]

\* a reset that clears the selection and keeps the ranks
StoreResetSelection(cl, clientId) ==
  [c \in DOMAIN cl \cup {clientId} |->
     IF c = clientId THEN [StoreGet(cl, clientId)[c] EXCEPT !.selected = {}] ELSE cl[c]]

\* InMemoryStore.reset
StoreReset(cl, clientId) ==
  [c \in DOMAIN cl \cup {clientId} |-> IF c = clientId THEN EmptyState ELSE cl[c]]

\* the client's state as the next store.get would return it
StateOf(cl, clientId) == StoreGet(cl, clientId)[clientId]

\* requireClientId: a missing or empty x-client-id header is rejected
MissingClientId(clientId) == clientId = ""

Response(op, clientId, args, status, items) ==
  [op |-> op, client |-> clientId, args |-> args, status |-> status, items |-> items]

\* an HttpError(400) thrown before any mutation
Reject(op, clientId, args) ==
  /\ last' = Response(op, clientId, args, 400, <<>>)
  /\ UNCHANGED <<clients, nops, hist, hook>>

Track(h, entry) == IF h = NoHistory THEN h ELSE Append(h, entry)

Init ==
  /\ clients = <<>>
  /\ last = Response("none", "", <<>>, 200, <<>>)
  /\ nops = 0
  /\ hist = NoHistory
  /\ hook = HookInit

\* the same store with the reorder history tracked
InitTracked ==
  /\ clients = <<>>
  /\ last = Response("none", "", <<>>, 200, <<>>)
  /\ nops = 0
  /\ hist = <<>>
  /\ hook = HookInit

(***************************************************************************)
(* POST /api/order (routes.ts) calling applyReorderInsert                  *)
(***************************************************************************)
ReorderInsert(clientId, movedId, targetId, position) ==
  LET args == [movedId |-> movedId, targetId |-> targetId, position |-> position,
               branch |-> "none"]
  IN IF \/ MissingClientId(clientId)
        \/ position \notin {"before", "after"}
        \/ movedId < 1 \/ movedId > MAX_ID \/ targetId < 1 \/ targetId > MAX_ID
        \/ InvalidReorder(movedId, targetId)
       THEN Reject("reorder", clientId, args)
       ELSE /\ clients' = [StoreGet(clients, clientId) EXCEPT
                             ![clientId] = applyReorderInsert(@, movedId, targetId, position)]
            /\ last' = Response("reorder", clientId,
                         [args EXCEPT !.branch =
                            IF needsRenormalization(StateOf(clients, clientId),
                                                    movedId, targetId, position)
                              THEN "renormalize" ELSE "midpoint"],
                         200, <<>>)
            /\ nops' = nops + 1
            /\ hist' = Track(hist, <<clientId, movedId, targetId, position>>)
            /\ UNCHANGED hook

(***************************************************************************)
(* GET /api/items: parsePagination (util/http.ts), then listPage           *)
(***************************************************************************)
RECURSIVE TrimStart(_)
TrimStart(q) == IF q # <<>> /\ Head(q) = " " THEN TrimStart(Tail(q)) ELSE q

RECURSIVE TrimEnd(_)
TrimEnd(q) ==
  IF q # <<>> /\ q[Len(q)] = " " THEN TrimEnd(SubSeq(q, 1, Len(q) - 1)) ELSE q

Max(a, b) == IF a >= b THEN a ELSE b

Min(a, b) == IF a <= b THEN a ELSE b

parsePagination(q, offset, limit) ==
  LET trimmed == TrimEnd(TrimStart(q))
  IN [q |-> IF Len(trimmed) > 24 THEN SubSeq(trimmed, 1, 24) ELSE trimmed,
      offset |-> Max(0, offset),
      limit |-> Min(Max(1, limit), 100)]

ListPage(clientId, q, offset, limit) ==
  IF MissingClientId(clientId)
    THEN Reject("items", clientId, [q |-> q, offset |-> offset, limit |-> limit])
    ELSE LET p == parsePagination(q, offset, limit)
         IN /\ clients' = StoreGet(clients, clientId)
            /\ last' = Response("items", clientId, p, 200,
                                listPage(StateOf(clients, clientId), p.q, p.offset, p.limit))
            /\ UNCHANGED <<nops, hist, hook>>

(***************************************************************************)
(* POST /api/selection/toggle                                              *)
(***************************************************************************)
MaxToggleIds == 1000

\* a range test without the upper end
InvalidIdLowOnly(id) == id < 1

InvalidId(id) == id < 1 \/ id > MAX_ID

\* a toggle that adds but never removes
ToggleSelectionAddOnly(clientId, ids, selected) ==
  LET args == [ids |-> ids, selected |-> selected]
  IN IF \/ MissingClientId(clientId)
        \/ Len(ids) = 0
        \/ Len(ids) > MaxToggleIds
        \/ \E i \in 1..Len(ids) : InvalidId(ids[i])
       THEN Reject("toggle", clientId, args)
       ELSE LET state == StateOf(clients, clientId)
                idSet == {ids[i] : i \in 1..Len(ids)}
                sel == IF selected THEN state.selected \cup idSet ELSE state.selected
            IN /\ clients' = [StoreGet(clients, clientId) EXCEPT ![clientId].selected = sel]
               /\ last' = Response("toggle", clientId, args, 200, <<Cardinality(sel)>>)
               /\ nops' = nops + 1
               /\ UNCHANGED <<hist, hook>>

ToggleSelection(clientId, ids, selected) ==
  LET args == [ids |-> ids, selected |-> selected]
  IN IF \/ MissingClientId(clientId)
        \/ Len(ids) = 0
        \/ Len(ids) > MaxToggleIds
        \/ \E i \in 1..Len(ids) : InvalidId(ids[i])
       THEN Reject("toggle", clientId, args)
       ELSE LET state == StateOf(clients, clientId)
                idSet == {ids[i] : i \in 1..Len(ids)}
                sel == IF selected THEN state.selected \cup idSet
                       ELSE state.selected \ idSet
            IN /\ clients' = [StoreGet(clients, clientId) EXCEPT ![clientId].selected = sel]
               /\ last' = Response("toggle", clientId, args, 200, <<Cardinality(sel)>>)
               /\ nops' = nops + 1
               /\ UNCHANGED <<hist, hook>>

(***************************************************************************)
(* GET /api/state                                                          *)
(***************************************************************************)
GetState(clientId) ==
  IF MissingClientId(clientId)
    THEN Reject("state", clientId, <<>>)
    ELSE LET state == StateOf(clients, clientId)
         IN /\ clients' = StoreGet(clients, clientId)
            /\ last' = Response("state", clientId, <<>>, 200,
                                <<Cardinality(state.selected), Len(state.rank)>>)
            /\ UNCHANGED <<nops, hist, hook>>

(***************************************************************************)
(* POST /api/reset                                                         *)
(***************************************************************************)
Reset(clientId) ==
  IF MissingClientId(clientId)
    THEN Reject("reset", clientId, <<>>)
    ELSE /\ clients' = StoreReset(clients, clientId)
         /\ last' = Response("reset", clientId,
                              [replaced |-> StateOf(clients, clientId)], 200, <<>>)
         /\ nops' = nops + 1
         /\ UNCHANGED <<hist, hook>>

(***************************************************************************)
(* POST /api/order/set                                                     *)
(***************************************************************************)
\* itemIds.forEach((id, index) => state.rank.set(id, index + 1))
RECURSIVE SetOrder(_, _, _)
SetOrder(m, itemIds, k) ==
  IF k > Len(itemIds) THEN m
  ELSE SetOrder(MapSet(m, itemIds[k], FromInt(k)), itemIds, k + 1)

\* a replacement that clears the ranks before it validates the list
SetWholeOrderClearFirst(clientId, itemIds) ==
  IF MissingClientId(clientId)
    THEN Reject("set", clientId, itemIds)
  ELSE IF \/ Len(itemIds) = 0
          \/ \E i \in 1..Len(itemIds) : InvalidId(itemIds[i])
    THEN /\ clients' = [StoreGet(clients, clientId) EXCEPT ![clientId].rank = <<>>]
         /\ last' = Response("set", clientId, itemIds, 400, <<>>)
         /\ UNCHANGED <<nops, hist, hook>>
    ELSE /\ clients' = [StoreGet(clients, clientId) EXCEPT
                          ![clientId].rank = SetOrder(<<>>, itemIds, 1)]
         /\ last' = Response("set", clientId, itemIds, 200, <<>>)
         /\ nops' = nops + 1
         /\ UNCHANGED <<hist, hook>>

\* a replacement that keeps the ranks it does not list
SetWholeOrderNoClear(clientId, itemIds) ==
  IF \/ MissingClientId(clientId)
     \/ Len(itemIds) = 0
     \/ \E i \in 1..Len(itemIds) : InvalidId(itemIds[i])
    THEN Reject("set", clientId, itemIds)
    ELSE /\ clients' = [StoreGet(clients, clientId) EXCEPT
                          ![clientId].rank =
                            SetOrder(StateOf(clients, clientId).rank, itemIds, 1)]
         /\ last' = Response("set", clientId, itemIds, 200, <<>>)
         /\ nops' = nops + 1
         /\ UNCHANGED <<hist, hook>>

SetWholeOrder(clientId, itemIds) ==
  IF \/ MissingClientId(clientId)
     \/ Len(itemIds) = 0
     \/ \E i \in 1..Len(itemIds) : InvalidId(itemIds[i])
    THEN Reject("set", clientId, itemIds)
    ELSE /\ clients' = [StoreGet(clients, clientId) EXCEPT
                          ![clientId].rank = SetOrder(<<>>, itemIds, 1)]
         /\ last' = Response("set", clientId, itemIds, 200, <<>>)
         /\ nops' = nops + 1
         /\ UNCHANGED <<hist, hook>>

(***************************************************************************)
(* POST /api/order/position                                                *)
(***************************************************************************)
\* 0.5
Half == [s |-> 1, e |-> 0 - 53, hi |-> 33554432, lo |-> 0]

\* 0.01
Hundredth == [s |-> 1, e |-> 0 - 59, hi |-> 42949672, lo |-> 128849019]

\* 0.1
Tenth == [s |-> 1, e |-> 0 - 56, hi |-> 53687091, lo |-> 26843546]

\* beforeItemId / afterItemId null or undefined
NoId == 0 - 1

FAbs(x) == IF x.s < 0 THEN FNeg(x) ELSE x

\* state.rank.get(id) || id
RankOrId(state, id) ==
  IF MapHas(state.rank, id) /\ MapGet(state.rank, id) # Zero
    THEN MapGet(state.rank, id) ELSE FromInt(id)

\* lines 269-278: every other entry with rank >= newRank moves up by one
ShiftUp(m, movedId, newRank) ==
  [i \in 1..Len(m) |->
     IF m[i].id # movedId /\ FGe(m[i].rank, newRank)
       THEN [id |-> m[i].id, rank |-> FAdd(m[i].rank, FromInt(1))]
       ELSE m[i]]

\* index of the first existing rank closer than dist to newRank, 0 if none
FirstWithin(existingRanks, newRank, dist) ==
  LET near(i) == FLt(FAbs(FSub(newRank, existingRanks[i])), dist)
  IN IF \E i \in 1..Len(existingRanks) : near(i)
       THEN CHOOSE i \in 1..Len(existingRanks) :
              near(i) /\ \A j \in 1..(i - 1) : ~near(j)
       ELSE 0

\* the rank map after an accepted set-position request
setPosition(state, movedId, newPosition, beforeItemId, afterItemId) ==
  LET between == beforeItemId # NoId /\ afterItemId # NoId
      newRank0 ==
        IF between THEN FAdd(RankOrId(state, beforeItemId), FromInt(1))
        ELSE IF beforeItemId # NoId THEN FAdd(RankOrId(state, beforeItemId), Half)
        ELSE IF afterItemId # NoId THEN FSub(RankOrId(state, afterItemId), Half)
        ELSE FAdd(FromInt(newPosition), FromInt(1))
      m == IF between THEN ShiftUp(state.rank, movedId, newRank0) ELSE state.rank
      existingRanks == SortSeq([i \in 1..Len(m) |-> m[i].rank], FLt)
      i1 == FirstWithin(existingRanks, newRank0, Hundredth)
      i2 == FirstWithin(existingRanks, newRank0, Tenth)
      newRank ==
        IF i1 # 0
          THEN IF FLt(existingRanks[i1], newRank0)
                 THEN FAdd(existingRanks[i1], Hundredth)
                 ELSE FSub(existingRanks[i1], Hundredth)
        ELSE IF i2 # 0 THEN FAdd(existingRanks[i2], Tenth)
        ELSE newRank0
  IN MapSet(m, movedId, newRank)

SetPosition(clientId, movedId, newPosition, beforeItemId, afterItemId) ==
  LET args == [movedId |-> movedId, newPosition |-> newPosition,
               beforeItemId |-> beforeItemId, afterItemId |-> afterItemId]
  IN IF \/ MissingClientId(clientId)
        \/ InvalidId(movedId)
        \/ newPosition < 0
        \/ (beforeItemId # NoId /\ InvalidId(beforeItemId))
        \/ (afterItemId # NoId /\ InvalidId(afterItemId))
       THEN Reject("position", clientId, args)
       ELSE /\ clients' = [StoreGet(clients, clientId) EXCEPT
                             ![clientId].rank =
                               setPosition(StateOf(clients, clientId), movedId,
                                           newPosition, beforeItemId, afterItemId)]
            /\ last' = Response("position", clientId, args, 200, <<>>)
            /\ nops' = nops + 1
            /\ UNCHANGED <<hist, hook>>

(***************************************************************************)
(* Requests.  Identifiers are drawn from both ends of [1, MAX_ID] and from *)
(* just outside it; the x-client-id header may be missing.  Every          *)
(* specification stops accepting write requests after a bounded number of  *)
(* accepted writes.                                                        *)
(***************************************************************************)
\* accepted writes per behaviour: all handlers, two clients
MaxOps == 2

\* accepted reorders per behaviour: reorders only, one client
MaxReorders == 3

Clients == {"A", "B"}

\* the x-client-id header of a request: a client, or missing
Headers == Clients \cup {""}

\* <<movedId, targetId, position>>: accepted, then rejected ones
ReorderRequests ==
  { <<1, 2, "before">>, <<2, 1, "after">>, <<MAX_ID, 1, "before">> }
  \cup
  { <<0, 1, "before">>, <<1, MAX_ID + 1, "after">>, <<2, 2, "before">>,
    <<1, 2, "middle">> }

\* <<ids, selected>>
ToggleRequests ==
  { <<<<1, 2>>, TRUE>>, <<<<2, MAX_ID>>, FALSE>>, <<<<>>, TRUE>>,
    <<<<1, MAX_ID + 1>>, FALSE>>, <<<<0, 2>>, TRUE>>,
    <<[i \in 1..(MaxToggleIds + 1) |-> 1 + (i % 2)], TRUE>> }

SetRequests == {<<2, 1>>, <<MAX_ID, 2, MAX_ID>>, <<>>, <<1, 0>>}

\* <<movedId, newPosition, beforeItemId, afterItemId>>
PositionRequests ==
  { <<2, 0, NoId, NoId>>, <<1, 0, 2, NoId>>, <<MAX_ID, 0, NoId, 1>>, <<1, 3, 2, 3>>,
    <<0, 0, NoId, NoId>>, <<1, 0 - 1, NoId, NoId>>, <<1, 0, NoId, MAX_ID + 1>>,
    <<1, 0, 0, NoId>> }

\* <<q, offset, limit>>
ListRequests ==
  { <<<<>>, 0, 3>>, <<<<"1">>, 0 - 1, 0>>, <<<<" ", "2">>, 1, 2>>, <<<<"x">>, 0, 1>> }

ReorderRequest ==
  \E c \in Headers, r \in ReorderRequests :
    nops < MaxOps /\ ReorderInsert(c, r[1], r[2], r[3])

ToggleRequest ==
  \E c \in Headers, r \in ToggleRequests :
    nops < MaxOps /\ ToggleSelection(c, r[1], r[2])

ResetRequest == \E c \in Headers : nops < MaxOps /\ Reset(c)

SetRequest ==
  \E c \in Headers, r \in SetRequests : nops < MaxOps /\ SetWholeOrder(c, r)

PositionRequest ==
  \E c \in Headers, r \in PositionRequests :
    nops < MaxOps /\ SetPosition(c, r[1], r[2], r[3], r[4])

ListRequest ==
  \E c \in Headers, r \in ListRequests : ListPage(c, r[1], r[2], r[3])

StateRequest == \E c \in Headers : GetState(c)

Next ==
  \/ ReorderRequest
  \/ ToggleRequest
  \/ ResetRequest
  \/ SetRequest
  \/ PositionRequest
  \/ ListRequest
  \/ StateRequest

Spec == Init /\ [][Next]_vars

(***************************************************************************)
(* Reorders only, one client, from the empty store.                        *)
(***************************************************************************)
ReorderIds == {1, 2, 3, MAX_ID}

NextReorder ==
  /\ nops < MaxReorders
  /\ \E movedId \in ReorderIds :
       \E targetId \in ReorderIds \ {movedId}, position \in {"before", "after"} :
         ReorderInsert("A", movedId, targetId, position)

SpecReorder == InitTracked /\ [][NextReorder]_vars

(***************************************************************************)
(* Listing: one client; reorders and whole-order replacements, then pages  *)
(* of the list under several queries.                                      *)
(***************************************************************************)
\* accepted writes per behaviour in the listing specification
MaxListWrites == 2

\* largest offset and limit requested
MaxOffset == 2

MaxLimit == 3

ListIds == {1, 2, 12}

ListQueries == {<<>>, <<"2">>, <<"1", "2">>}

ListWrite ==
  /\ nops < MaxListWrites
  /\ \/ \E movedId \in ListIds :
          \E targetId \in ListIds \ {movedId}, position \in {"before", "after"} :
            ReorderInsert("A", movedId, targetId, position)
     \/ \E itemIds \in {<<2, 1>>, <<MAX_ID, 2, MAX_ID>>} : SetWholeOrder("A", itemIds)

ListRead ==
  \E q \in ListQueries, offset \in 0..MaxOffset, limit \in 1..MaxLimit :
    ListPage("A", q, offset, limit)

NextList == ListWrite \/ ListRead

SpecList == Init /\ [][NextList]_vars

(***************************************************************************)
(* Scenario A: reorders among 30, 130 and 230 from the empty store.        *)
(***************************************************************************)
MaxScenarioOps == 2

ScenarioIds == {30, 130, 230}

NextScenarioA ==
  /\ nops < MaxScenarioOps
  /\ \E movedId \in ScenarioIds :
       \E targetId \in ScenarioIds \ {movedId}, position \in {"before", "after"} :
         ReorderInsert("A", movedId, targetId, position)

SpecScenarioA == InitTracked /\ [][NextScenarioA]_vars

(***************************************************************************)
(* Moves in front of item 1: any identifier, from the empty store.         *)
(***************************************************************************)
MaxFirstOps == 1

NextFirst ==
  /\ nops < MaxFirstOps
  /\ \E movedId \in 2..MAX_ID : ReorderInsert("A", movedId, 1, "before")

SpecFirst == InitTracked /\ [][NextFirst]_vars

(***************************************************************************)
(* Whole-order replacements by permutations of 1..n, after reorders.       *)
(***************************************************************************)
MaxSetOps == 2

\* longest permutation sent
MaxPermLen == 4

\* the permutations of 1..n for n up to MaxPermLen
OrderPermutations ==
  UNION {{P \in [1..n -> 1..n] : \A i, j \in 1..n : P[i] = P[j] => i = j} :
           n \in 1..MaxPermLen}

NextSetOrder ==
  /\ nops < MaxSetOps
  /\ \/ \E movedId \in 1..3 :
          \E targetId \in (1..3) \ {movedId}, position \in {"before", "after"} :
            ReorderInsert("A", movedId, targetId, position)
     \/ \E P \in OrderPermutations : SetWholeOrder("A", P)

SpecSetOrder == Init /\ [][NextSetOrder]_vars

(***************************************************************************)
(* Scenario B: the store holds the overrides {100: 30.0001, 101: 30.0002}  *)
(* for client A, as the test 'dense interval renormalizes' sets them;      *)
(* reorders among 100, 101 and 102 follow.                                 *)
(***************************************************************************)
MaxScenarioBOps == 2

\* 30.0001
Rank100 == [s |-> 1, e |-> 0 - 48, hi |-> 62914769, lo |-> 95992519]

\* 30.0002
Rank101 == [s |-> 1, e |-> 0 - 48, hi |-> 62914979, lo |-> 57767310]

ScenarioBState ==
  [selected |-> {},
   rank |-> <<[id |-> 100, rank |-> Rank100], [id |-> 101, rank |-> Rank101]>>]

InitScenarioB ==
  /\ clients = ("A" :> ScenarioBState)
  /\ last = Response("none", "", <<>>, 200, <<>>)
  /\ nops = 0
  /\ hist = <<>>
  /\ hook = HookInit

ScenarioBIds == {100, 101, 102}

NextScenarioB ==
  /\ nops < MaxScenarioBOps
  /\ \E movedId \in ScenarioBIds :
       \E targetId \in ScenarioBIds \ {movedId}, position \in {"before", "after"} :
         ReorderInsert("A", movedId, targetId, position)

SpecScenarioB == InitScenarioB /\ [][NextScenarioB]_vars

(***************************************************************************)
(* Repeated inserts before one target: from the empty store, the items     *)
(* 101, 102, ... are moved before the same target one after the other.     *)
(***************************************************************************)
MaxRepeatOps == 34

RepeatTargets == {10, 50, 90}

\* the i-th identifier moved
RepeatMoved(i) == 100 + i

NextRepeat ==
  /\ nops < MaxRepeatOps
  /\ \E T \in RepeatTargets :
       /\ IF hist = <<>> THEN TRUE ELSE hist[1][3] = T
       /\ ReorderInsert("A", RepeatMoved(nops + 1), T, "before")

SpecRepeat == InitTracked /\ [][NextRepeat]_vars

(***************************************************************************)
(* Selection and ordering together: one client toggles, reorders (far       *)
(* enough for a renormalization) and lists.                                 *)
(***************************************************************************)
MaxSelectOps == 4

SelectIds == {1, 2, 3}

SelectToggles == { <<<<1, 3>>, TRUE>>, <<<<3>>, FALSE>> }

NextSelection ==
  \/ /\ nops < MaxSelectOps
     /\ \E movedId \in SelectIds :
          \E targetId \in SelectIds \ {movedId}, position \in {"before", "after"} :
            ReorderInsert("A", movedId, targetId, position)
  \/ /\ nops < MaxSelectOps
     /\ \E t \in SelectToggles : ToggleSelection("A", t[1], t[2])
  \/ ListPage("A", <<>>, 0, 4)

SpecSelection == Init /\ [][NextSelection]_vars

(***************************************************************************)
(* src/server/src/ordering.ts, the hint-based variant: the bounds come from  *)
(* the beforeId / afterId of the payload instead of a scan of the overrides. *)
(***************************************************************************)
\* a one-sided offset of 0.0001 in place of 1
chooseBetweenHintedDelta(lower, upper) ==
  IF lower # Undefined /\ upper # Undefined THEN FHalf(FAdd(lower, upper))
  ELSE IF upper # Undefined THEN FSub(upper, TenthMilli)
  ELSE IF lower # Undefined THEN FAdd(lower, TenthMilli)
  ELSE Zero

\* chooseBetween of the hint-based variant (lines 26-37)
chooseBetweenHinted(lower, upper) ==
  IF lower # Undefined /\ upper # Undefined THEN FHalf(FAdd(lower, upper))
  ELSE IF upper # Undefined THEN FSub(upper, FromInt(1))
  ELSE IF lower # Undefined THEN FAdd(lower, FromInt(1))
  ELSE Zero

\* the truthiness test `beforeId && beforeId !== movedId`: absent, null and 0
\* are not hints
HintGiven(hintId, movedId) == hintId # NoId /\ hintId # 0 /\ hintId # movedId

\* lines 96-102: lower and upper
BoundsHinted(state, movedId, targetId, position, beforeId, afterId) ==
  IF position = "before"
    THEN <<IF HintGiven(beforeId, movedId) THEN getRank(state, beforeId) ELSE Undefined,
           getRank(state, targetId)>>
    ELSE <<getRank(state, targetId),
           IF HintGiven(afterId, movedId) THEN getRank(state, afterId) ELSE Undefined>>

\* lines 105-106
needsRenormalizationHinted(state, movedId, targetId, position, beforeId, afterId) ==
  LET b == BoundsHinted(state, movedId, targetId, position, beforeId, afterId)
  IN b[1] # Undefined /\ b[2] # Undefined /\ FLt(FSub(b[2], b[1]), EPS)

\* lines 110-127: idsInOrder
WindowHinted(movedId, targetId, position, beforeId, afterId) ==
  (IF HintGiven(beforeId, movedId) THEN <<beforeId>> ELSE <<>>)
    \o (IF position = "before" THEN <<movedId, targetId>> ELSE <<targetId, movedId>>)
    \o (IF HintGiven(afterId, movedId) THEN <<afterId>> ELSE <<>>)

\* the client state after applyReorderInsert of the hint-based variant
applyReorderInsertHinted(state, movedId, targetId, position, beforeId, afterId) ==
  LET b == BoundsHinted(state, movedId, targetId, position, beforeId, afterId)
  IN IF needsRenormalizationHinted(state, movedId, targetId, position, beforeId, afterId)
       THEN [state EXCEPT !.rank =
               renormalizeWindow(state,
                                 WindowHinted(movedId, targetId, position, beforeId, afterId),
                                 b[1], b[2])]
       ELSE LET newRank == chooseBetweenHinted(b[1], b[2])
                m1 == MapSet(state.rank, movedId, newRank)
            IN [state EXCEPT !.rank =
                  IF MapHas(m1, targetId) THEN m1
                  ELSE MapSet(m1, targetId, FromInt(targetId))]

\* a call of the hint-based applyReorderInsert(clientId, payload)
ReorderInsertHinted(clientId, movedId, targetId, position, beforeId, afterId) ==
  LET args == [movedId |-> movedId, targetId |-> targetId, position |-> position,
               beforeId |-> beforeId, afterId |-> afterId, branch |-> "none"]
  IN IF InvalidReorder(movedId, targetId)
       THEN Reject("reorderHinted", clientId, args)
       ELSE /\ clients' = [StoreGet(clients, clientId) EXCEPT
                             ![clientId] = applyReorderInsertHinted(@, movedId, targetId,
                                             position, beforeId, afterId)]
            /\ last' = Response("reorderHinted", clientId,
                         [args EXCEPT !.branch =
                            IF needsRenormalizationHinted(StateOf(clients, clientId), movedId,
                                 targetId, position, beforeId, afterId)
                              THEN "renormalize" ELSE "midpoint"],
                         200, <<>>)
            /\ nops' = nops + 1
            /\ hist' = Track(hist, <<clientId, movedId, targetId, position>>)
            /\ UNCHANGED hook

MaxHintedOps == 2

HintedIds == {2, 4}

HintValues == {NoId, 0, 1, 2, 4, 5}

NextHinted ==
  /\ nops < MaxHintedOps
  /\ \E movedId \in HintedIds, targetId \in HintedIds, position \in {"before", "after"} :
       \E beforeId \in HintValues, afterId \in HintValues :
         ReorderInsertHinted("A", movedId, targetId, position, beforeId, afterId)

SpecHinted == InitTracked /\ [][NextHinted]_vars

(***************************************************************************)
(* Scenario A under both variants: the hint-based one is called without     *)
(* beforeId / afterId.                                                      *)
(***************************************************************************)
MaxVariantOps == 2

NextVariants ==
  /\ nops < MaxVariantOps
  /\ \E movedId \in ScenarioIds :
       \E targetId \in ScenarioIds \ {movedId}, position \in {"before", "after"} :
         \/ ReorderInsert("A", movedId, targetId, position)
         \/ ReorderInsertHinted("A", movedId, targetId, position, NoId, NoId)

SpecVariants == InitTracked /\ [][NextVariants]_vars

(***************************************************************************)
(* Neighbour lookups: getPredByRank and getSuccByRank called on the states   *)
(* that reorders and whole-order replacements leave.                        *)
(***************************************************************************)
MaxNeighbourWrites == 2

NeighbourIds == {1, 2, 3}

NeighbourWrite ==
  /\ nops < MaxNeighbourWrites
  /\ \/ \E movedId \in NeighbourIds :
          \E targetId \in NeighbourIds \ {movedId}, position \in {"before", "after"} :
            ReorderInsert("A", movedId, targetId, position)
     \/ \E itemIds \in {<<3, 1, 2>>, <<2, MAX_ID>>} : SetWholeOrder("A", itemIds)

\* the targetRank arguments: the ranks of stored and default items, and the
\* ends of the identifier range
ProbeRanks(state) ==
  {getRank(state, id) : id \in NeighbourIds \cup {MAX_ID}}
    \cup {Zero, FromInt(1), FAdd(FromInt(1), Half), FromInt(MAX_ID + 1), FromInt(MAX_ID + 2)}

\* the excludeId arguments; 0 stands for an omitted excludeId
ProbeExcludes == {0, 1, 3}

PredProbe ==
  \E targetRank \in ProbeRanks(StateOf(clients, "A")), excludeId \in ProbeExcludes :
    /\ last' = Response("pred", "A", [targetRank |-> targetRank, excludeId |-> excludeId],
                        200, <<getPredByRank(StateOf(clients, "A"), targetRank, excludeId)>>)
    /\ UNCHANGED <<clients, nops, hist, hook>>

SuccProbe ==
  \E targetRank \in ProbeRanks(StateOf(clients, "A")), excludeId \in ProbeExcludes :
    /\ last' = Response("succ", "A", [targetRank |-> targetRank, excludeId |-> excludeId],
                        200, <<getSuccByRank(StateOf(clients, "A"), targetRank, excludeId)>>)
    /\ UNCHANGED <<clients, nops, hist, hook>>

NextNeighbours == NeighbourWrite \/ PredProbe \/ SuccProbe

SpecNeighbours == Init /\ [][NextNeighbours]_vars

(***************************************************************************)
(* chooseBetween (global-scan variant) called on its own.                   *)
(***************************************************************************)
\* 1.9999999999999998, the double just below 2
BelowTwo == [s |-> 1, e |-> 0 - 52, hi |-> 67108863, lo |-> 134217727]

\* the lower / upper arguments: absent, integers, fractions, two adjacent doubles
ChooseInputs ==
  {Undefined, Zero, Half, FromInt(1), BelowTwo, FromInt(2), FAdd(FromInt(2), Milli),
   FromInt(10), FromInt(20), FromInt(MAX_ID), FNeg(FromInt(1)), FNeg(Milli)}

ChooseBetween ==
  \E lower \in ChooseInputs, upper \in ChooseInputs :
    /\ last' = Response("chooseBetween", "", [lower |-> lower, upper |-> upper], 200,
                        <<chooseBetween(lower, upper)>>)
    /\ UNCHANGED <<clients, nops, hist, hook>>

SpecChoose == Init /\ [][ChooseBetween]_vars

(***************************************************************************)
(* renormalizeWindow called on its own, on the state earlier calls left.    *)
(***************************************************************************)
MaxRenormalizeOps == 2

\* 10.0001
TenAndTenthMilli == [s |-> 1, e |-> 0 - 49, hi |-> 41943459, lo |-> 57767310]

\* the idsInOrder arguments: empty, distinct identifiers, a repeated identifier
RenormalizeWindows == {<<>>, <<1, 2, 3>>, <<2, 1>>, <<3, 1, 3>>, <<5>>}

\* the lower / upper arguments
RenormalizeBounds == {Undefined, Zero, EPS, FromInt(10), TenAndTenthMilli, FromInt(20)}

RenormalizeWindow ==
  /\ nops < MaxRenormalizeOps
  /\ \E idsInOrder \in RenormalizeWindows, lower \in RenormalizeBounds,
        upper \in RenormalizeBounds :
       /\ clients' = [StoreGet(clients, "A") EXCEPT
                        !["A"].rank = renormalizeWindow(StateOf(clients, "A"), idsInOrder,
                                                        lower, upper)]
       /\ last' = Response("renormalizeWindow", "A",
                           [idsInOrder |-> idsInOrder, lower |-> lower, upper |-> upper,
                            before |-> StateOf(clients, "A").rank],
                           200, <<>>)
       /\ nops' = nops + 1
       /\ UNCHANGED <<hist, hook>>

SpecRenormalize == Init /\ [][RenormalizeWindow]_vars

(***************************************************************************)
(* Whole-order replacements by arbitrary lists of distinct identifiers.     *)
(***************************************************************************)
MaxSetListOps == 2

\* longest list sent
MaxListLen == 3

SetListIds == {1, 2, 3, 5, MAX_ID}

\* the lists of distinct identifiers of SetListIds, up to MaxListLen long
DistinctLists ==
  UNION {{L \in [1..n -> SetListIds] : \A i, j \in 1..n : L[i] = L[j] => i = j} :
           n \in 1..MaxListLen}

NextSetList ==
  /\ nops < MaxSetListOps
  /\ \E L \in DistinctLists : SetWholeOrder("A", L)

SpecSetList == Init /\ [][NextSetList]_vars

(***************************************************************************)
(* Repeated requests: one client; reorders among three low identifiers,    *)
(* long enough for a dense state to be built and a request sent twice.     *)
(***************************************************************************)
\* accepted reorders per behaviour in the repeated-request specification
MaxTwiceOps == 4

NextTwice ==
  /\ nops < MaxTwiceOps
  /\ \E movedId \in {1, 2, 3} :
       \E targetId \in {1, 2, 3} \ {movedId}, position \in {"before", "after"} :
         ReorderInsert("A", movedId, targetId, position)

SpecTwice == InitTracked /\ [][NextTwice]_vars

(***************************************************************************)
(* Set position: one client; set-position requests with every combination  *)
(* of the two neighbour hints.                                             *)
(***************************************************************************)
\* accepted set-position requests per behaviour
MaxPositionOps == 2

NextPosition ==
  /\ nops < MaxPositionOps
  /\ \E movedId \in {1, 3, 5, MAX_ID}, beforeItemId \in {NoId, 2, 4},
        afterItemId \in {NoId, 3, 5} :
       SetPosition("A", movedId, 0, beforeItemId, afterItemId)

SpecPosition == Init /\ [][NextPosition]_vars

(***************************************************************************)
(* Client: DndContextProvider.handleDragEnd and ItemsTable.handleReorder.  *)
(* The loaded list is the one of the last response; a drag updates it      *)
(* optimistically and posts the reorder to the server.                     *)
(***************************************************************************)
\* items.findIndex(item => item.id === id), counted from 1; 0 when absent
FindIndex(items, id) ==
  IF \E i \in 1..Len(items) : items[i].id = id
    THEN CHOOSE i \in 1..Len(items) :
           items[i].id = id /\ \A j \in 1..(i - 1) : items[j].id # id
    ELSE 0

\* handleDragEnd: the position passed to onReorder, "none" when it returns
\* without calling it; overId is NoId when there is no drop target
handleDragEnd(items, activeId, overId) ==
  LET movedIndex == FindIndex(items, activeId)
      targetIndex == FindIndex(items, overId)
  IN IF overId = NoId \/ activeId = overId THEN "none"
     ELSE IF movedIndex = 0 \/ targetIndex = 0 THEN "none"
     ELSE IF movedIndex = targetIndex THEN "none"
     ELSE IF movedIndex < targetIndex THEN "after"
     ELSE "before"

\* array.splice(start, 0, item) with start counted from 0, clamped to the length
SpliceInsert(items, start, item) ==
  LET at == Min(start, Len(items))
  IN SubSeq(items, 1, at) \o <<item>> \o SubSeq(items, at + 1, Len(items))

\* array.splice(index, 1) with index counted from 1: the array without it
SpliceRemove(items, index) ==
  SubSeq(items, 1, index - 1) \o SubSeq(items, index + 1, Len(items))

\* the optimistic list of handleReorder (lines 157-186); the indices are taken
\* before the moved item is removed
handleReorder(items, movedId, targetId, position) ==
  LET movedIndex == FindIndex(items, movedId)
      targetIndex == FindIndex(items, targetId)
      insertIndex == IF position = "after" THEN targetIndex ELSE targetIndex - 1
  IN IF movedIndex = 0 \/ targetIndex = 0 THEN items
     ELSE SpliceInsert(SpliceRemove(items, movedIndex), insertIndex, items[movedIndex])

\* the list the table shows: the items of the last page or of the last drag
Loaded == IF last.op \in {"items", "drag"} /\ last.status = 200 THEN last.items ELSE <<>>

\* a drag of activeId dropped on overId: handleDragEnd, then handleReorder with
\* its optimistic update and the POST /api/order it awaits
Drag(clientId, activeId, overId) ==
  LET items == Loaded
      position == handleDragEnd(items, activeId, overId)
  IN IF position = "none" THEN UNCHANGED vars
     ELSE /\ clients' = [StoreGet(clients, clientId) EXCEPT
                           ![clientId] = applyReorderInsert(@, activeId, overId, position)]
          /\ last' = Response("drag", clientId,
                       [movedId |-> activeId, targetId |-> overId,
                        position |-> position, items |-> items],
                       200, handleReorder(items, activeId, overId, position))
          /\ nops' = nops + 1
          /\ hist' = Track(hist, <<clientId, activeId, overId, position>>)
          /\ UNCHANGED hook

\* accepted drags per behaviour
MaxDragOps == 2

\* largest page loaded before dragging
MaxDragLimit == 4

NextDrag ==
  \/ \E limit \in 1..MaxDragLimit : ListPage("A", <<>>, 0, limit)
  \/ /\ nops < MaxDragOps
     /\ \E activeId \in {Loaded[i].id : i \in 1..Len(Loaded)},
           overId \in {Loaded[i].id : i \in 1..Len(Loaded)} \cup {NoId} :
          Drag("A", activeId, overId)

SpecDrag == Init /\ [][NextDrag]_vars

(***************************************************************************)
(* Client: the useInfiniteItems hook.  Its steps are the events of the     *)
(* page: the query prop changes, the debounce timer fires, fetchNext is    *)
(* called (by the initial-load effect or the scroll observer), and the     *)
(* promise of a request settles with a response or with an AbortError.     *)
(* A request is [q, offset, issued, status]; issued is the value of        *)
(* hook.resets when it was sent; the AbortController held by the ref is    *)
(* the one of the last request sent.                                       *)
(***************************************************************************)
\* limit: 20 of every request
PageSize == 20

\* abortControllerRef.current.abort(): the promise of the last request sent
\* rejects unless it has settled
AbortCurrent(requests) ==
  IF requests # <<>> /\ requests[Len(requests)].status = "pending"
    THEN [requests EXCEPT ![Len(requests)].status = "aborted"]
    ELSE requests

\* the query prop changes: the effect on [query] clears the timer and arms it
QueryChange(q) ==
  /\ q # hook.query
  /\ hook' = [hook EXCEPT !.query = q, !.timer = "query"]
  /\ last' = Response("queryChange", "A", [q |-> q], 200, <<>>)
  /\ nops' = nops + 1
  /\ UNCHANGED <<clients, hist>>

\* the debounce timer fires (lines 108-115); nothing is aborted
DebouncedReset ==
  /\ hook.timer # "none"
  /\ hook' = [hook EXCEPT !.items = <<>>, !.offset = 0, !.isEnd = FALSE,
                          !.isLoading = FALSE, !.timer = "none",
                          !.resets = IF hook.timer = "query" THEN @ + 1 ELSE @]
  /\ last' = Response("debounce", "A", [timer |-> hook.timer], 200, <<>>)
  /\ UNCHANGED <<clients, nops, hist>>

\* fetchNext up to the await (lines 30-50)
FetchNext ==
  /\ ~(hook.isLoading \/ hook.isEnd)
  /\ hook' = [hook EXCEPT
                !.isLoading = TRUE,
                !.requests = Append(AbortCurrent(@),
                                    [q |-> hook.query, offset |-> hook.offset,
                                     issued |-> hook.resets, status |-> "pending"])]
  /\ last' = Response("fetchNext", "A", [q |-> hook.query, offset |-> hook.offset],
                      200, <<>>)
  /\ UNCHANGED <<clients, nops, hist>>

\* response.items.filter(item => !existingIds.has(item.id))
NewItems(prev, items) ==
  SelectSeq(items, LAMBDA item : \A i \in 1..Len(prev) : prev[i].id # item.id)

\* the server answers request i and fetchNext resumes after the await
\* (lines 52-63, 68-70)
ResponseArrives(i) ==
  /\ hook.requests[i].status = "pending"
  /\ LET r == hook.requests[i]
         p == parsePagination(r.q, r.offset, PageSize)
         items == listPage(StateOf(clients, "A"), p.q, p.offset, p.limit)
     IN /\ hook' = [hook EXCEPT
                      !.items = @ \o NewItems(@, items),
                      !.offset = @ + Len(items),
                      !.isEnd = IF Len(items) < PageSize THEN TRUE ELSE @,
                      !.isLoading = FALSE,
                      !.requests[i].status = "done"]
        /\ last' = Response("response", "A",
                            [q |-> r.q, offset |-> r.offset, issued |-> r.issued,
                             resets |-> hook.resets, advance |-> Len(items)],
                            200, NewItems(hook.items, items))
  /\ clients' = StoreGet(clients, "A")
  /\ UNCHANGED <<nops, hist>>

\* the promise of an aborted request rejects with an AbortError
\* (lines 64-70)
AbortArrives(i) ==
  /\ hook.requests[i].status = "aborted"
  /\ hook' = [hook EXCEPT !.isLoading = FALSE, !.requests[i].status = "done"]
  /\ last' = Response("aborted", "A",
                      [q |-> hook.requests[i].q, offset |-> hook.requests[i].offset],
                      200, <<>>)
  /\ UNCHANGED <<clients, nops, hist>>

\* query changes per behaviour
MaxQueryChanges == 2

\* requests sent per behaviour
MaxRequests == 3

NextHook ==
  \/ nops < MaxQueryChanges /\ \E q \in {<<>>, <<"2", "3">>} : QueryChange(q)
  \/ DebouncedReset
  \/ Len(hook.requests) < MaxRequests /\ FetchNext
  \/ \E i \in 1..Len(hook.requests) : ResponseArrives(i)
  \/ \E i \in 1..Len(hook.requests) : AbortArrives(i)

SpecHook == Init /\ [][NextHook]_vars

(***************************************************************************)
(* End of the list: one client; a write, then pages whose offset is at,    *)
(* near or beyond the number of matching identifiers.                      *)
(***************************************************************************)
\* accepted writes per behaviour in the end-of-list specification
MaxEndWrites == 1

\* largest limit requested at the end of the list
MaxEndLimit == 3

\* matched by every identifier, by six of them, by one and by none
EndQueries == {<<>>, <<"2", "3">>, <<"2", "3", "2">>, <<"2", "3", "x">>}

NextEnd ==
  \/ /\ nops < MaxEndWrites
     /\ \E movedId \in {23, 231, MAX_ID} :
          \E targetId \in {23, 231, MAX_ID} \ {movedId}, position \in {"before", "after"} :
            ReorderInsert("A", movedId, targetId, position)
  \/ nops < MaxEndWrites /\ SetWholeOrder("A", <<MAX_ID, 23>>)
  \/ \E q \in EndQueries, offset \in {0, 1, 5, 6, 7}, limit \in 1..MaxEndLimit :
       ListPage("A", q, offset, limit)

SpecEnd == Init /\ [][NextEnd]_vars

(***************************************************************************)
(* Properties.                                                             *)
(***************************************************************************)
\* a precedes b in the total order by (resolved rank, identifier)
Precedes(state, a, b) ==
  LET ra == getRank(state, a)
      rb == getRank(state, b)
  IN FLt(ra, rb) \/ (ra = rb /\ a < b)

\* a comes directly before b: no other identifier of [1, MAX_ID] is between
DirectlyBefore(state, a, b) ==
  /\ Precedes(state, a, b)
  /\ \A x \in (1..MAX_ID) \ {a, b} : ~(Precedes(state, a, x) /\ Precedes(state, x, b))

\* the last request was a reorder and it was accepted
ReorderDone == last.op = "reorder" /\ last.status = 200

\* C1 (order preservation): right after an accepted reorderInsert(movedId,
\* targetId, position), movedId is directly before targetId in the order by
\* (resolved rank, identifier) when position is 'before', and directly after it
\* when position is 'after'.
C1_OrderPreservation ==
  ReorderDone =>
    LET state == StateOf(clients, last.client)
    IN IF last.args.position = "before"
         THEN DirectlyBefore(state, last.args.movedId, last.args.targetId)
         ELSE DirectlyBefore(state, last.args.targetId, last.args.movedId)

\* C2 (direction): right after an accepted reorderInsert, getRank(movedId) <
\* getRank(targetId) for 'before' and getRank(movedId) > getRank(targetId) for
\* 'after', in the renormalization branch as in the midpoint branch.
C2_Direction ==
  ReorderDone =>
    LET state == StateOf(clients, last.client)
        movedRank == getRank(state, last.args.movedId)
        targetRank == getRank(state, last.args.targetId)
    IN IF last.args.position = "before"
         THEN FLt(movedRank, targetRank)
         ELSE FGt(movedRank, targetRank)

\* C7 (separation): right after an accepted reorderInsert, the resolved rank
\* of movedId differs by at least EPS from the resolved rank of the identifier
\* directly before it and of the identifier directly after it in the order by
\* (resolved rank, identifier): no identifier closer than EPS is a neighbour.
C7_Separation ==
  ReorderDone =>
    LET state == StateOf(clients, last.client)
        movedId == last.args.movedId
        movedRank == getRank(state, movedId)
    IN \A x \in (1..MAX_ID) \ {movedId} :
         FLt(FAbs(FSub(movedRank, getRank(state, x))), EPS) =>
           ~(DirectlyBefore(state, x, movedId) \/ DirectlyBefore(state, movedId, x))

\* the identifiers of [1, MAX_ID] whose decimal form contains q
Matching(q) == {id \in 1..MAX_ID : matchesQuery(id, q)}

\* items holds exactly the positions [offset, offset + limit) of the matching
\* identifiers sorted by Before: the k-th item has offset + k - 1 predecessors
IsPage(items, q, offset, limit, Before(_, _)) ==
  /\ Len(items) = Min(limit, Max(0, Cardinality(Matching(q)) - offset))
  /\ \A k \in 1..Len(items) :
       /\ items[k].id \in Matching(q)
       /\ Cardinality({y \in Matching(q) : Before(y, items[k].id)}) = offset + k - 1

\* the last request was a listing and it was answered
ListDone == last.op = "items" /\ last.status = 200

\* C3: the page returned by listPage(q, offset, limit) is exactly the positions
\* [offset, offset + limit) of the identifiers of [1, MAX_ID] matching q, sorted
\* ascending by (resolved rank, identifier); each matching identifier has one
\* position in that sequence, with or without an override.
C3_ListPageSorted ==
  ListDone =>
    LET state == StateOf(clients, last.client)
    IN IsPage(last.items, last.args.q, last.args.offset, last.args.limit,
              LAMBDA a, b : Precedes(state, a, b))

\* a page under a query that holds two items of equal rank, one of them stored
C3_Witness ==
  /\ ListDone
  /\ last.args.q # <<>>
  /\ \E k \in 1..(Len(last.items) - 1) :
       LET state == StateOf(clients, last.client)
       IN /\ getRank(state, last.items[k].id) = getRank(state, last.items[k + 1].id)
          /\ IsOverride([id |-> last.items[k + 1].id,
                         rank |-> getRank(state, last.items[k + 1].id)])

\* C4 (pagination consistency): with no write in between, the page [0, k)
\* followed by the page [k, k + m) is the page [0, k + m); the page returned for
\* offset k and limit m is the second one, and a page of limit 0 is empty.
C4_PaginationConsistency ==
  ListDone =>
    LET state == StateOf(clients, last.client)
        q == last.args.q
        k == last.args.offset
        m == last.args.limit
    IN /\ listPage(state, q, 0, k) \o last.items = listPage(state, q, 0, k + m)
       /\ listPage(state, q, 0, k) \o listPage(state, q, k, 0) = listPage(state, q, 0, k)

\* a full second page that starts past the first item and holds a reordered item
C4_Witness ==
  /\ ListDone
  /\ last.args.offset >= 1
  /\ Len(last.items) = last.args.limit
  /\ last.args.limit >= 2
  /\ \E k \in 1..Len(last.items) :
       MapHas(StateOf(clients, last.client).rank, last.items[k].id)

\* the identifiers of a reorder request are out of range or equal
BadReorderArgs(args) ==
  \/ args.movedId < 1 \/ args.movedId > MAX_ID
  \/ args.targetId < 1 \/ args.targetId > MAX_ID
  \/ args.movedId = args.targetId

\* C5: a reorder whose movedId or targetId is outside [1, MAX_ID], or whose
\* movedId equals its targetId, is answered with status 400 and leaves the
\* overrides and the selection of every client as they were.
C5_InvalidReorderRejected ==
  [][(last'.op = "reorder" /\ BadReorderArgs(last'.args)) =>
       (last'.status = 400 /\ clients' = clients)]_vars

\* a self-move was rejected while a client had stored ranks
C5_Witness ==
  /\ last.op = "reorder"
  /\ last.status = 400
  /\ last.client # ""
  /\ last.args.movedId = last.args.targetId
  /\ \E c \in DOMAIN clients : clients[c].rank # <<>>

\* C6 (totality): a reorder with both identifiers in [1, MAX_ID], movedId #
\* targetId and position 'before' or 'after' is accepted, and movedId has a
\* stored rank afterwards, whatever predecessor or successor exists.
C6_Totality ==
  (/\ last.op = "reorder"
   /\ last.client # ""
   /\ ~BadReorderArgs(last.args)
   /\ last.args.position \in {"before", "after"}) =>
    /\ last.status = 200
    /\ last.client \in DOMAIN clients
    /\ MapHas(clients[last.client].rank, last.args.movedId)

\* an accepted reorder that took the renormalization branch
C6_Witness ==
  /\ ReorderDone
  /\ last.args.branch = "renormalize"
  /\ MapHas(clients[last.client].rank, last.args.movedId)

\* C8 (client isolation): a request issued for one client leaves the overrides
\* and the selection of every other client as they were, and the page a listing
\* returns is the one computed from the requesting client's state alone.
C8_ClientIsolation ==
  [][/\ \A b \in Clients :
          b # last'.client => StateOf(clients', b) = StateOf(clients, b)
     /\ (last'.op = "items" /\ last'.status = 200) =>
          last'.items =
            listPage(StateOf([b \in DOMAIN clients \cap {last'.client} |-> clients[b]],
                             last'.client),
                     last'.args.q, last'.args.offset, last'.args.limit)]_vars

\* a write for A was accepted while B had a state of its own
C8_Witness ==
  /\ last.client = "A"
  /\ last.status = 200
  /\ last.op \in {"reorder", "toggle", "reset", "set", "position"}
  /\ "B" \in DOMAIN clients
  /\ clients["B"] # EmptyState
  /\ nops = MaxOps

\* the pages asked of a state after a reset
ResetProbes == ListQueries \X (0..MaxOffset) \X (0..MaxLimit)

\* C9: right after reset(clientId), whatever preceded it, every listPage
\* returns the matching identifiers in ascending identifier order with
\* selected = false on every item, and getRank(id) = id for every identifier.
C9_ResetEmpties ==
  (last.op = "reset" /\ last.status = 200) =>
    LET state == StateOf(clients, last.client)
    IN /\ \A id \in 1..MAX_ID : getRank(state, id) = FromInt(id)
       /\ \A r \in ResetProbes :
            LET items == listPage(state, r[1], r[2], r[3])
            IN /\ IsPage(items, r[1], r[2], r[3], LAMBDA a, b : a < b)
               /\ \A k \in 1..Len(items) : ~items[k].selected

\* a reset that replaced a state holding ranks
C9_Witness ==
  /\ last.op = "reset"
  /\ last.status = 200
  /\ last.args.replaced.rank # <<>>

\* the two reorders of Scenario A
ScenarioA1 == <<"A", 130, 30, "before">>

ScenarioA2 == <<"A", 230, 130, "before">>

\* C10 (Scenario A): from the empty state, reorderInsert(130, 30, before) puts
\* getRank(130) strictly between 29 and 30; reorderInsert(230, 130, before)
\* then gives getRank(230) < getRank(130) < getRank(30), and the unfiltered
\* listing holds 230, 130, 30 as three consecutive items in that order.
C10_ScenarioA ==
  LET state == StateOf(clients, "A")
  IN /\ hist = <<ScenarioA1>> =>
          /\ FLt(FromInt(29), getRank(state, 130))
          /\ FLt(getRank(state, 130), FromInt(30))
     /\ hist = <<ScenarioA1, ScenarioA2>> =>
          /\ FLt(getRank(state, 230), getRank(state, 130))
          /\ FLt(getRank(state, 130), getRank(state, 30))
          /\ LET items == listPage(state, <<>>, 0, 50)
             IN \E i \in 1..(Len(items) - 2) :
                  /\ items[i].id = 230
                  /\ items[i + 1].id = 130
                  /\ items[i + 2].id = 30

\* both reorders of Scenario A were applied
C10_Witness ==
  /\ hist = <<ScenarioA1, ScenarioA2>>
  /\ ReorderDone
  /\ last.args.movedId = 230

\* C11 (move to first position): from the empty state, after
\* reorderInsert(movedId, 1, before) with movedId # 1, getRank(movedId) < 1,
\* getRank(1) = 1, and the unfiltered page of 5 from offset 0 is movedId, 1,
\* then the remaining identifiers in ascending order.
C11_MoveToFirst ==
  (Len(hist) = 1 /\ ReorderDone) =>
    LET state == StateOf(clients, "A")
        movedId == last.args.movedId
        rest == (2..MAX_ID) \ {movedId}
        items == listPage(state, <<>>, 0, 5)
    IN /\ FLt(getRank(state, movedId), FromInt(1))
       /\ getRank(state, 1) = FromInt(1)
       /\ Len(items) = 5
       /\ items[1].id = movedId
       /\ items[2].id = 1
       /\ \A k \in 3..5 :
            /\ items[k].id \in rest
            /\ Cardinality({y \in rest : y < items[k].id}) = k - 3

\* item 2 was moved before item 1 and the first page is 2, 1, 3, 4, 5
C11_Witness ==
  /\ hist = <<<<"A", 2, 1, "before">>>>
  /\ ReorderDone
  /\ [k \in 1..5 |-> listPage(StateOf(clients, "A"), <<>>, 0, 5)[k].id] = <<2, 1, 3, 4, 5>>

\* C12 (setWholeOrder round trip): whatever the previous overrides, after
\* setWholeOrder(P) for a permutation P of 1..n, the unfiltered page of n items
\* from offset 0 is exactly P in order.
C12_SetOrderRoundTrip ==
  (last.op = "set" /\ last.status = 200 /\ last.args \in OrderPermutations) =>
    LET P == last.args
        items == listPage(StateOf(clients, last.client), <<>>, 0, Len(P))
    IN /\ Len(items) = Len(P)
       /\ \A k \in 1..Len(P) : items[k].id = P[k]

\* a permutation with a fixed point replaced the ranks an earlier write had stored
C12_Witness ==
  /\ last.op = "set"
  /\ last.status = 200
  /\ last.args = <<3, 2, 1, 4>>
  /\ nops = 2

\* the reorder of Scenario B
ScenarioB1 == <<"A", 102, 101, "before">>

\* C13 (Scenario B outcome): from the overrides {100: 30.0001, 101: 30.0002},
\* after reorderInsert(102, 101, before), getRank(100) < getRank(102) <
\* getRank(101), and the unfiltered listing restricted to these three
\* identifiers is 100, 102, 101.
C13_ScenarioBOutcome ==
  hist = <<ScenarioB1>> =>
    LET state == StateOf(clients, "A")
        items == listPage(state, <<>>, 0, 50)
        ids == [k \in 1..Len(items) |-> items[k].id]
    IN /\ FLt(getRank(state, 100), getRank(state, 102))
       /\ FLt(getRank(state, 102), getRank(state, 101))
       /\ SelectSeq(ids, LAMBDA id : id \in ScenarioBIds) = <<100, 102, 101>>

\* the reorder of Scenario B was applied and 102 has a stored rank
C13_Witness ==
  /\ hist = <<ScenarioB1>>
  /\ MapHas(StateOf(clients, "A").rank, 102)

C15_RepeatedInsertsBefore ==
  (/\ hist # <<>>
   /\ \A i \in 1..Len(hist) : hist[i][3] = hist[1][3] /\ hist[i][4] = "before") =>
    LET state == StateOf(clients, "A")
        T == hist[1][3]
        k == Len(hist)
    IN /\ DirectlyBefore(state, T - 1, hist[1][2])
       /\ \A i \in 1..(k - 1) : DirectlyBefore(state, hist[i][2], hist[i + 1][2])
       /\ DirectlyBefore(state, hist[k][2], T)
       /\ DirectlyBefore(state, T, T + 1)

\* the stored state of a client, the empty state for a client never seen
StoredOrEmpty(cl, c) == IF c \in DOMAIN cl THEN cl[c] ELSE EmptyState

\* C16: an accepted toggleSelection(ids, selected) makes the selection the old
\* set united with ids when selected is true and the old set minus ids when it
\* is false, and leaves the client's overrides unchanged.
C16_ToggleChangesSelectionOnly ==
  [][(last'.op = "toggle" /\ last'.status = 200) =>
       LET old == StateOf(clients, last'.client)
           new == StateOf(clients', last'.client)
           ids == last'.args.ids
           idSet == {ids[i] : i \in 1..Len(ids)}
       IN /\ new.selected = IF last'.args.selected THEN old.selected \cup idSet
                            ELSE old.selected \ idSet
          /\ new.rank = old.rank]_vars

\* a deselection was accepted for a client that has stored ranks or a selection
C16_Witness ==
  /\ last.op = "toggle"
  /\ last.status = 200
  /\ ~last.args.selected
  /\ nops = 2
  /\ clients[last.client] # EmptyState

\* a toggle batch that is too long or holds an identifier outside [1, MAX_ID]
BadToggleArgs(args) ==
  \/ Len(args.ids) > MaxToggleIds
  \/ \E i \in 1..Len(args.ids) : args.ids[i] < 1 \/ args.ids[i] > MAX_ID

\* C17: a toggle batch with more than 1000 identifiers, or with an identifier
\* outside [1, MAX_ID] at any position, is answered with status 400 and the
\* selection (and every other part of the store) is left as it was.
C17_ToggleAllOrNothing ==
  [][(last'.op = "toggle" /\ BadToggleArgs(last'.args)) =>
       (last'.status = 400 /\ clients' = clients)]_vars

\* a batch whose last identifier is out of range was rejected while the client
\* had a selection
C17_Witness ==
  /\ last.op = "toggle"
  /\ last.status = 400
  /\ last.client # ""
  /\ last.args.ids = <<1, MAX_ID + 1>>
  /\ StateOf(clients, last.client).selected # {}

\* a whole-order list that is empty or holds an out-of-range identifier
BadSetArgs(itemIds) ==
  Len(itemIds) = 0 \/ \E i \in 1..Len(itemIds) : itemIds[i] < 1 \/ itemIds[i] > MAX_ID

\* an identifier outside [1, MAX_ID]
OutOfRange(id) == id < 1 \/ id > MAX_ID

\* a set-position request with an out-of-range identifier or negative position
BadPositionArgs(args) ==
  \/ OutOfRange(args.movedId)
  \/ args.newPosition < 0
  \/ (args.beforeItemId # NoId /\ OutOfRange(args.beforeItemId))
  \/ (args.afterItemId # NoId /\ OutOfRange(args.afterItemId))

\* C18 (no partial failure): a setWholeOrder with an empty list or an
\* out-of-range identifier, and a set-position with an out-of-range identifier or
\* a negative newPosition, is answered with status 400; and every request
\* answered with status 400 leaves overrides and selection as they were.
C18_NoPartialFailure ==
  [][/\ (last'.op = "set" /\ BadSetArgs(last'.args)) => last'.status = 400
     /\ (last'.op = "position" /\ BadPositionArgs(last'.args)) => last'.status = 400
     /\ last'.status = 400 => clients' = clients]_vars

\* a whole-order list with an out-of-range identifier was rejected while the
\* client had stored ranks
C18_Witness ==
  /\ last.op = "set"
  /\ last.status = 400
  /\ last.client # ""
  /\ last.args # <<>>
  /\ StateOf(clients, last.client).rank # <<>>

\* C20 (listPage is read-only): a listing leaves the overrides and the
\* selection of every client unchanged, a client seen for the first time
\* counting as one with the empty state; the same listing asked again with no
\* write in between returns the same items.
C20_ListPageReadOnly ==
  [][last'.op = "items" =>
       /\ \A c \in Clients : StoredOrEmpty(clients', c) = StoredOrEmpty(clients, c)
       /\ (/\ last.op = "items"
           /\ last.status = 200
           /\ last'.client = last.client
           /\ last'.args = last.args) => last'.items = last.items]_vars

\* a listing was answered for a client that has stored ranks and a selection
C20_Witness ==
  /\ ListDone
  /\ StateOf(clients, last.client).rank # <<>>
  /\ StateOf(clients, last.client).selected # {}
  /\ Len(last.items) >= 2

\* C19 (selection is independent of ordering): every item returned by listPage
\* has the label "Item " + id and selected equal to the membership of its id in
\* the client's selection at read time; no reorderInsert, on the midpoint or on
\* the renormalization branch, adds or removes an identifier of any selection.
C19_SelectionIndependent ==
  [][/\ (last'.op = "items" /\ last'.status = 200) =>
          \A i \in 1..Len(last'.items) :
            LET item == last'.items[i]
            IN /\ item.label = <<"Item ">> \o String(item.id)
               /\ item.selected =
                    (item.id \in StoredOrEmpty(clients, last'.client).selected)
     /\ last'.op = "reorder" =>
          \A c \in Clients :
            StoredOrEmpty(clients', c).selected = StoredOrEmpty(clients, c).selected]_vars

\* a reorder renormalized a window of ranks while identifiers were selected
C19_Witness ==
  /\ ReorderDone
  /\ last.args.branch = "renormalize"
  /\ StateOf(clients, last.client).selected # {}

\* C21 (idempotent defaults): in every reachable state, for every identifier
\* with no stored entry getRank(state, id) is the identifier itself, and for
\* an identifier with a stored entry getRank returns the stored value.
C21_IdempotentDefaults ==
  \A c \in DOMAIN clients :
    LET state == clients[c]
        entries == {state.rank[i] : i \in 1..Len(state.rank)}
    IN \A id \in 1..MAX_ID :
         IF \E en \in entries : en.id = id
           THEN \E en \in entries : en.id = id /\ getRank(state, id) = en.rank
           ELSE getRank(state, id) = FromInt(id)

\* a client holds a stored rank that differs from its identifier, next to
\* identifiers with no stored entry
C21_Witness ==
  \E c \in DOMAIN clients :
    /\ \E i \in 1..Len(clients[c].rank) :
         clients[c].rank[i].rank # FromInt(clients[c].rank[i].id)
    /\ Len(clients[c].rank) >= 2
    /\ Len(clients[c].rank) < MAX_ID

\* the identifiers of a state whose stored rank differs from the identifier
GenuineOverrides(state) ==
  {state.rank[i].id : i \in {k \in 1..Len(state.rank) : IsOverride(state.rank[k])}}

\* C22 (override count bound): after n accepted reorderInsert operations on a
\* fresh client state, and no other write, at most n identifiers hold a stored
\* rank different from the identifier.
C22_OverrideCountBound ==
  \A c \in DOMAIN clients : Cardinality(GenuineOverrides(clients[c])) <= Len(hist)

\* the last call was an accepted call of the hint-based applyReorderInsert
HintedDone == last.op = "reorderHinted" /\ last.status = 200

\* C23 (direction, hint-based variant): whatever beforeId / afterId hints are
\* supplied, right after an accepted applyReorderInsert the stored rank of
\* movedId is less than the stored rank of targetId when position is 'before'
\* and greater when position is 'after'.
C23_HintedDirection ==
  HintedDone =>
    LET state == StateOf(clients, last.client)
        moved == getRank(state, last.args.movedId)
        target == getRank(state, last.args.targetId)
    IN IF last.args.position = "before" THEN FLt(moved, target) ELSE FGt(moved, target)

\* C24: from the empty state, reorderInsert(130, 30, before) of the hint-based
\* variant called without hints leaves getRank(130) outside the open interval
\* (29, 30), while the same call of the global-scan variant places it inside.
C24_HintedMissesScenarioA ==
  hist = <<ScenarioA1>> =>
    LET rank130 == getRank(StateOf(clients, "A"), 130)
        inside == FLt(FromInt(29), rank130) /\ FLt(rank130, FromInt(30))
    IN /\ last.op = "reorderHinted" => ~inside
       /\ last.op = "reorder" => inside

\* the hint-based variant made the first move of Scenario A without hints and
\* stored 29 for item 130
C24_Witness ==
  /\ hist = <<ScenarioA1>>
  /\ HintedDone
  /\ last.args.beforeId = NoId
  /\ last.args.afterId = NoId
  /\ getRank(StateOf(clients, "A"), 130) = FromInt(29)

\* the stored entries that a neighbour scan may return: id # excludeId and
\* rank # id
QualifyingEntries(state, excludeId) ==
  {state.rank[k] : k \in {i \in 1..Len(state.rank) :
                            /\ state.rank[i].id # excludeId
                            /\ state.rank[i].rank # FromInt(state.rank[i].id)}}

\* C25: getPredByRank(state, targetRank, excludeId) returns the qualifying
\* stored entry of greatest rank strictly below targetRank; with none, the
\* default (floor(targetRank) - 1, floor(targetRank) - 1) when targetRank > 1
\* and that identifier lies in [1, MAX_ID]; and null otherwise.
C25_PredByRank ==
  last.op = "pred" =>
    LET state == StateOf(clients, "A")
        targetRank == last.args.targetRank
        pred == last.items[1]
        below == {en \in QualifyingEntries(state, last.args.excludeId) :
                    FLt(en.rank, targetRank)}
        defaultPredId == FFloor(targetRank) - 1
    IN IF below # {}
         THEN pred \in below /\ \A en \in below : FLe(en.rank, pred.rank)
       ELSE IF FGt(targetRank, FromInt(1)) /\ defaultPredId >= 1 /\ defaultPredId <= MAX_ID
         THEN pred = [id |-> defaultPredId, rank |-> FromInt(defaultPredId)]
       ELSE pred = Null

\* the lookup returned a stored entry while the excluded identifier held a
\* rank closer to targetRank
C25_Witness ==
  /\ last.op = "pred"
  /\ last.items[1] \in QualifyingEntries(StateOf(clients, "A"), last.args.excludeId)
  /\ \E en \in QualifyingEntries(StateOf(clients, "A"), 0) :
       /\ en.id = last.args.excludeId
       /\ FLt(last.items[1].rank, en.rank)
       /\ FLt(en.rank, last.args.targetRank)

\* C26: getSuccByRank(state, targetRank, excludeId) returns the qualifying
\* stored entry of least rank strictly above targetRank; with none, the
\* default (floor(targetRank) + 1, floor(targetRank) + 1) when that identifier
\* lies in [1, MAX_ID]; and null otherwise.
C26_SuccByRank ==
  last.op = "succ" =>
    LET state == StateOf(clients, "A")
        targetRank == last.args.targetRank
        succ == last.items[1]
        above == {en \in QualifyingEntries(state, last.args.excludeId) :
                    FGt(en.rank, targetRank)}
        defaultSuccId == FFloor(targetRank) + 1
    IN IF above # {}
         THEN succ \in above /\ \A en \in above : FGe(en.rank, succ.rank)
       ELSE IF defaultSuccId >= 1 /\ defaultSuccId <= MAX_ID
         THEN succ = [id |-> defaultSuccId, rank |-> FromInt(defaultSuccId)]
       ELSE succ = Null

\* the lookup fell back to the default successor although a stored entry with
\* rank = id lay above targetRank
C26_Witness ==
  /\ last.op = "succ"
  /\ last.items[1] # Null
  /\ QualifyingEntries(StateOf(clients, "A"), last.args.excludeId) # {}
  /\ last.items[1] \notin QualifyingEntries(StateOf(clients, "A"), last.args.excludeId)
  /\ \E k \in 1..Len(StateOf(clients, "A").rank) :
       LET en == StateOf(clients, "A").rank[k]
       IN en.rank = FromInt(en.id) /\ FGt(en.rank, last.args.targetRank)

\* C27: chooseBetween with both bounds and lower < upper returns the midpoint
\* (lower + upper) / 2, strictly greater than lower and strictly less than
\* upper; with only an upper bound upper - 0.0001; with only a lower bound
\* lower + 0.0001; with no bound 0.
C27_ChooseBetween ==
  last.op = "chooseBetween" =>
    LET lower == last.args.lower
        upper == last.args.upper
        rank == last.items[1]
    IN /\ (lower # Undefined /\ upper # Undefined /\ FLt(lower, upper)) =>
            /\ rank = FHalf(FAdd(lower, upper))
            /\ FLt(lower, rank)
            /\ FLt(rank, upper)
       /\ (lower = Undefined /\ upper # Undefined) => rank = FSub(upper, TenthMilli)
       /\ (lower # Undefined /\ upper = Undefined) => rank = FAdd(lower, TenthMilli)
       /\ (lower = Undefined /\ upper = Undefined) => rank = Zero

\* the rank renormalizeWindow gives to the k-th of n identifiers
WindowRank(lower, upper, n, k) ==
  IF lower # Undefined /\ upper # Undefined /\ FGt(FSub(upper, lower), EPS)
    THEN FAdd(lower, FMulInt(FDivInt(FSub(upper, lower), n + 1), k))
  ELSE IF upper # Undefined THEN FAdd(FSub(upper, FromInt(n)), FromInt(k - 1))
  ELSE IF lower # Undefined THEN FAdd(FAdd(lower, FromInt(1)), FromInt(k - 1))
  ELSE FromInt(k - 1)

\* C28: renormalizeWindow(state, ids, lower, upper) with n = |ids| > 0 assigns
\* to the k-th identifier lower + k * (upper - lower) / (n + 1) when both
\* bounds are given and upper - lower > EPS; otherwise upper - n + (k - 1)
\* with an upper bound, else lower + 1 + (k - 1) with a lower bound, else
\* k - 1 (the assignments are made in window order, so the last one made to an
\* identifier stands); no other stored rank changes, and nothing changes when
\* ids is empty.
C28_RenormalizeWindow ==
  last.op = "renormalizeWindow" =>
    LET ids == last.args.idsInOrder
        n == Len(ids)
        old == last.args.before
        new == StateOf(clients, "A").rank
        inWindow == {ids[k] : k \in 1..n}
    IN /\ n = 0 => new = old
       /\ \A k \in 1..n :
            (\A j \in (k + 1)..n : ids[j] # ids[k]) =>
              /\ MapHas(new, ids[k])
              /\ MapGet(new, ids[k]) = WindowRank(last.args.lower, last.args.upper, n, k)
       /\ MapKeys(new) = MapKeys(old) \cup inWindow
       /\ \A id \in MapKeys(old) \ inWindow : MapGet(new, id) = MapGet(old, id)

\* a window was spread evenly between its bounds while an identifier outside
\* the window held a stored rank
C28_Witness ==
  /\ last.op = "renormalizeWindow"
  /\ last.args.lower # Undefined
  /\ last.args.upper # Undefined
  /\ FGt(FSub(last.args.upper, last.args.lower), EPS)
  /\ Len(last.args.idsInOrder) = 2
  /\ \E id \in MapKeys(last.args.before) : \A k \in 1..2 : last.args.idsInOrder[k] # id

\* C29 (renormalization restores separation): after every renormalization
\* performed by reorderInsert, the ranks of the identifiers of the affected
\* window are strictly increasing in window order and every adjacent pair of
\* the window differs by at least EPS.
C29_RenormalizationSeparates ==
  [][(/\ last'.op = "reorder"
      /\ last'.status = 200
      /\ last'.args.branch = "renormalize") =>
       LET new == StateOf(clients', last'.client)
           idsInOrder == Window(StateOf(clients, last'.client), last'.args.movedId,
                                last'.args.targetId, last'.args.position)
       IN \A k \in 1..(Len(idsInOrder) - 1) :
            /\ FLt(getRank(new, idsInOrder[k]), getRank(new, idsInOrder[k + 1]))
            /\ FGe(FSub(getRank(new, idsInOrder[k + 1]), getRank(new, idsInOrder[k])),
                   EPS)]_vars

\* C30 (midpoint branch frame): when an accepted reorderInsert does not
\* renormalize, the resolved rank of every identifier other than movedId is
\* unchanged; the stored entries written are the one of movedId and, when
\* targetId had no stored entry, an entry of targetId equal to targetId; an
\* existing entry of targetId is not overwritten.
C30_MidpointFrame ==
  [][(/\ last'.op = "reorder"
      /\ last'.status = 200
      /\ last'.args.branch = "midpoint") =>
       LET old == StateOf(clients, last'.client)
           new == StateOf(clients', last'.client)
           movedId == last'.args.movedId
           targetId == last'.args.targetId
       IN /\ \A id \in (1..MAX_ID) \ {movedId} : getRank(new, id) = getRank(old, id)
          /\ MapKeys(new.rank) = MapKeys(old.rank) \cup {movedId, targetId}
          /\ \A id \in MapKeys(old.rank) \ {movedId} :
               MapGet(new.rank, id) = MapGet(old.rank, id)
          /\ ~MapHas(old.rank, targetId) =>
               MapGet(new.rank, targetId) = FromInt(targetId)]_vars

\* a reorder took the midpoint branch towards a target whose stored rank
\* differs from its identifier
C30_Witness ==
  /\ ReorderDone
  /\ last.args.branch = "midpoint"
  /\ getRank(StateOf(clients, last.client), last.args.targetId)
       # FromInt(last.args.targetId)

\* C31 (a reorder moves only the dragged item): after an accepted
\* reorderInsert(movedId, targetId, position), renormalizing or not, any two
\* identifiers both different from movedId have the same relative order by
\* (resolved rank, identifier) as before.  Two identifiers without a stored
\* entry before and after keep their order, so one of each pair is taken
\* among the identifiers with a stored entry.
C31_OnlyMovedItemMoves ==
  [][(last'.op = "reorder" /\ last'.status = 200) =>
       LET old == StateOf(clients, last'.client)
           new == StateOf(clients', last'.client)
           movedId == last'.args.movedId
           touched == MapKeys(old.rank) \cup MapKeys(new.rank)
       IN \A a \in touched \ {movedId} :
            \A b \in (1..MAX_ID) \ {movedId, a} :
              Precedes(new, a, b) = Precedes(old, a, b)]_vars

\* C32 (rank uniqueness): in every state reached from the empty state by
\* accepted reorderInsert calls, no two distinct identifiers of [1, MAX_ID]
\* have the same resolved rank.  Identifiers without a stored entry have
\* distinct ranks, so one of each pair is taken among the stored entries.
C32_RankUniqueness ==
  \A c \in DOMAIN clients :
    \A a \in MapKeys(clients[c].rank) :
      \A b \in (1..MAX_ID) \ {a} : getRank(clients[c], a) # getRank(clients[c], b)

\* C33 (window well-formedness): whenever an accepted reorderInsert
\* renormalizes, the identifier list it passes to renormalizeWindow holds no
\* identifier twice; the predecessor and the successor it collects differ
\* from movedId and from targetId.
C33_WindowWellFormed ==
  [][(/\ last'.op = "reorder"
      /\ last'.status = 200
      /\ last'.args.branch = "renormalize") =>
       LET idsInOrder == Window(StateOf(clients, last'.client), last'.args.movedId,
                                last'.args.targetId, last'.args.position)
       IN \A j \in 1..Len(idsInOrder), k \in 1..Len(idsInOrder) :
            j # k => idsInOrder[j] # idsInOrder[k]]_vars

\* C34 (neighbour results are consistent with the store): whenever
\* getPredByRank or getSuccByRank returns a pair (id, rank) for a state, id
\* differs from excludeId, rank = getRank(state, id), and no identifier other
\* than excludeId has a resolved rank strictly between rank and targetRank.
C34_NeighbourConsistent ==
  (last.op \in {"pred", "succ"} /\ last.items[1] # Null) =>
    LET state == StateOf(clients, "A")
        targetRank == last.args.targetRank
        found == last.items[1]
        lo == IF last.op = "pred" THEN found.rank ELSE targetRank
        hi == IF last.op = "pred" THEN targetRank ELSE found.rank
    IN /\ found.id # last.args.excludeId
       /\ found.rank = getRank(state, found.id)
       /\ \A id \in (1..MAX_ID) \ {last.args.excludeId} :
            ~(FLt(lo, getRank(state, id)) /\ FLt(getRank(state, id), hi))

\* C35 (setWholeOrder with an arbitrary list): for every non-empty list L of
\* distinct identifiers of [1, MAX_ID], not necessarily a permutation of
\* 1..|L|, after setWholeOrder(L) the unfiltered page of |L| items from offset
\* 0 is exactly L in the listed order.
C35_SetOrderArbitraryList ==
  (last.op = "set" /\ last.status = 200) =>
    LET L == last.args
        items == listPage(StateOf(clients, last.client), <<>>, 0, Len(L))
    IN /\ Len(items) = Len(L)
       /\ \A k \in 1..Len(L) : items[k].id = L[k]

\* C36 (reorderInsert is idempotent on the visible order): when an accepted
\* reorderInsert(movedId, targetId, position) is applied a second time in a
\* row, the order of all identifiers by (resolved rank, identifier) after the
\* second application is the one after the first.  Two identifiers without a
\* stored entry keep their order, so one of each pair is taken among the
\* identifiers with a stored entry.
C36_ReorderIdempotent ==
  [][(/\ last'.op = "reorder"
      /\ last'.status = 200
      /\ ReorderDone
      /\ last.client = last'.client
      /\ last.args.movedId = last'.args.movedId
      /\ last.args.targetId = last'.args.targetId
      /\ last.args.position = last'.args.position) =>
       LET once == StateOf(clients, last'.client)
           twice == StateOf(clients', last'.client)
           touched == MapKeys(once.rank) \cup MapKeys(twice.rank)
       IN \A a \in touched :
            \A b \in (1..MAX_ID) \ {a} :
              Precedes(twice, a, b) = Precedes(once, a, b)]_vars

\* C37 (set position between two items): when an accepted set-position request
\* names both beforeItemId and afterItemId, afterItemId directly follows
\* beforeItemId in the order before the request, and movedId is neither of
\* them, then after the request movedId is strictly between beforeItemId and
\* afterItemId in the order by (resolved rank, identifier), and every two
\* identifiers other than movedId keep their relative order.
C37_PositionBetween ==
  [][(/\ last'.op = "position" /\ last'.status = 200
      /\ last'.args.beforeItemId # NoId /\ last'.args.afterItemId # NoId
      /\ last'.args.movedId \notin {last'.args.beforeItemId, last'.args.afterItemId}
      /\ DirectlyBefore(StateOf(clients, last'.client),
                        last'.args.beforeItemId, last'.args.afterItemId)) =>
       LET old == StateOf(clients, last'.client)
           new == StateOf(clients', last'.client)
           movedId == last'.args.movedId
           touched == MapKeys(old.rank) \cup MapKeys(new.rank)
                        \cup {last'.args.beforeItemId, last'.args.afterItemId}
       IN /\ Precedes(new, last'.args.beforeItemId, movedId)
          /\ Precedes(new, movedId, last'.args.afterItemId)
          /\ \A a \in touched \ {movedId} : \A b \in (1..MAX_ID) \ {movedId, a} :
               Precedes(new, a, b) = Precedes(old, a, b)]_vars

\* the last step was a drag that called onReorder
DragDone == last.op = "drag" /\ last.status = 200

\* C38 (optimistic order): after a drag of movedId onto targetId within the
\* loaded list, the list shown has movedId directly after targetId when the
\* position chosen by handleDragEnd is 'after' and directly before targetId
\* when it is 'before'.
C38_OptimisticOrder ==
  DragDone =>
    LET m == FindIndex(last.items, last.args.movedId)
        t == FindIndex(last.items, last.args.targetId)
    IN /\ m # 0 /\ t # 0
       /\ last.args.position = "after" => m = t + 1
       /\ last.args.position = "before" => m = t - 1

\* the last step was the arrival of a response
ResponseDone == last.op = "response" /\ last.status = 200

\* C39 (no stale pages): a response to a request that was sent before the
\* list was last reset for a new query appends no item to the list and does
\* not advance the offset.
C39_NoStalePages ==
  (ResponseDone /\ last.args.issued < last.args.resets) =>
    (last.items = <<>> /\ last.args.advance = 0)

\* C40 (bounded pages): a listing with offset >= 0 and limit >= 1 is answered
\* with at most limit items; it holds fewer than limit items only when fewer
\* than offset + limit identifiers of [1, MAX_ID] match the query, and it is
\* empty when offset is at least the number of matching identifiers.
C40_PageBounded ==
  ListDone =>
    LET n == Cardinality(Matching(last.args.q))
    IN /\ Len(last.items) <= last.args.limit
       /\ Len(last.items) < last.args.limit => n < last.args.offset + last.args.limit
       /\ last.args.offset >= n => last.items = <<>>

\* a short page that is not empty, past a positive offset, of a client with
\* overrides
C40_Witness ==
  /\ ListDone
  /\ StateOf(clients, last.client).rank # <<>>
  /\ last.args.offset > 0
  /\ Len(last.items) > 0
  /\ Len(last.items) < last.args.limit

====
